---------------------------- MODULE Spec2Model ----------------------------
(***************************************************************************)
(* TrinityBot: a Telegram bot that takes a post (text and media) and       *)
(* publishes it to the selected social platforms.                          *)
(*                                                                         *)
(* The module models                                                       *)
(*   - the post store (internal/storage/posts.go over the schema of        *)
(*     internal/db/migrations): posts, post_targets, post_media,           *)
(*     post_logs, one operator per repository method, with the UNIQUE and  *)
(*     REFERENCES constraints of the schema;                               *)
(*   - the handlers of the bot (package bot): every update is handled on   *)
(*     a goroutine of its own, so a handler is a process whose steps are   *)
(*     its store statements and its remote calls.                          *)
(*                                                                         *)
(* Three specifications share the state:                                   *)
(*   SpecStore    the repository called by one caller, one call at a time; *)
(*   SpecCompose  concurrent message handlers of a chat in a /post session;*)
(*   Spec         concurrent callback handlers (toggle, publish, confirm,  *)
(*                cancel) on a composed draft; the repository answers      *)
(*                within the deadline of the handler's context.            *)
(***************************************************************************)
EXTENDS Naturals, Integers, Sequences, FiniteSets, Bags, TLC

VARIABLES
    posts,       \* table posts: id -> row (the domain is the set of ids in use)
    nextPostId,  \* the BIGSERIAL of posts.id
    schema,      \* table schema_migrations, and the migrations whose SQL is committed
    targets,     \* table post_targets: <<post, platform>> -> rows (a sequence)
    media,       \* table post_media: post -> rows in insertion order
    logs,        \* table post_logs: a bag of rows
    sessions,    \* Bot.sessions: chat -> <<>> or <<session>>
    cfg,         \* Bot.config: the values that are not empty, and AllowedUsers
    remote,      \* what the platforms and the file server answer in this run
    pc,          \* handler -> position in its code
    loc,         \* handler -> its local variables
    ctxDone,     \* handler -> the 3 s deadline of its context (dbCtx) has passed
    handled,     \* number of updates (or repository calls) taken so far
    last,        \* history: the last repository call and what it returned
    hist         \* history: per post, what the calls so far were given and returned

vars == <<posts, nextPostId, schema, targets, media, logs, sessions, cfg, remote, pc, loc,
          ctxDone, handled, last, hist>>

-----------------------------------------------------------------------------
(* Bounds of the model *)

MaxPosts == 2
MaxOps == 3
MaxMsgs == 3
MaxUpdates == 3
NumHandlers == 2

(* Program constants *)

MaxMedia == 10

-----------------------------------------------------------------------------
(* Values *)

\* A Go pointer or a nullable column: Nil, or Some(v).
Nil == <<>>
Some(v) == <<v>>

PostIds == 1..MaxPosts

Handlers == 1..NumHandlers

\* storage.Platforms, in its order.
Platforms == <<"twitter", "pinterest", "facebook", "instagram", "tiktok">>

PlatformSet == {Platforms[i] : i \in DOMAIN Platforms}

\* The platform strings a caller passes in this model: the five names, one
\* spelling with a capital, and a name that is no platform.
PlatformNames == PlatformSet \cup {"Twitter", "mastodon"}

\* strings.ToLower on PlatformNames.
ToLower(s) ==
    CASE s = "Twitter" -> "twitter"
      [] OTHER -> s

\* The values the column post_targets.platform can take.
PlatKeys == {ToLower(s) : s \in PlatformNames}

\* A validPlatform that accepts every name.
validPlatformAny(p) == TRUE

validPlatform(p) == \E i \in DOMAIN Platforms : Platforms[i] = ToLower(p)

\* Text is a sequence of characters; NL is the separator E'\n'.
NL == "\n"

-----------------------------------------------------------------------------
(* The repository (storage.repo).  Every operator takes the tables it reads *)
(* and returns the error ("" for nil), the result and the tables it wrote.  *)

\* REFERENCES posts(id) of post_targets, post_media and post_logs.
PostExists(ps, postID) == postID \in DOMAIN ps

CreatePost(ps, nid, p) ==
    [id |-> nid,
     posts |-> [i \in DOMAIN ps \cup {nid} |->
                   IF i = nid THEN [p EXCEPT !.Status = "draft"] ELSE ps[i]]]

\* SELECT EXISTS(SELECT 1 FROM post_targets WHERE post_id=$1 AND platform=$2)
TargetExists(tg, postID, p) == tg[postID, p] # <<>>

\* A DELETE whose WHERE clause matches no row.
DeleteTargetNoRow(tg, postID, p) == tg

\* DELETE FROM post_targets WHERE post_id=$1 AND platform=$2
DeleteTarget(tg, postID, p) == [tg EXCEPT ![postID, p] = <<>>]

\* The INSERT on a table that lacks UNIQUE(post_id, platform).
InsertTargetNoUnique(tg, ps, postID, p) ==
    IF ~PostExists(ps, postID)
    THEN [err |-> "insert target", targets |-> tg]
    ELSE [err |-> "",
          targets |-> [tg EXCEPT ![postID, p] =
              Append(@, [status |-> "pending", external_post_id |-> Nil, error |-> Nil])]]

\* INSERT INTO post_targets(post_id, platform, status) VALUES ($1,$2,'pending'),
\* under REFERENCES posts(id) and UNIQUE(post_id, platform).
InsertTarget(tg, ps, postID, p) ==
    IF ~PostExists(ps, postID) \/ tg[postID, p] # <<>>
    THEN [err |-> "insert target", targets |-> tg]
    ELSE [err |-> "",
          targets |-> [tg EXCEPT ![postID, p] =
              Append(@, [status |-> "pending", external_post_id |-> Nil, error |-> Nil])]]

ToggleTarget(tg, ps, postID, platform) ==
    LET p == ToLower(platform) IN
    IF ~validPlatform(p)
    THEN [err |-> "invalid platform", enabled |-> FALSE, targets |-> tg]
    ELSE IF TargetExists(tg, postID, p)
    THEN [err |-> "", enabled |-> FALSE, targets |-> DeleteTarget(tg, postID, p)]
    ELSE LET ins == InsertTarget(tg, ps, postID, p) IN
         IF ins.err # ""
         THEN [err |-> ins.err, enabled |-> FALSE, targets |-> tg]
         ELSE [err |-> "", enabled |-> TRUE, targets |-> ins.targets]

ListTargets(tg, postID) ==
    LET rowKeys == {ToLower(k) : k \in {k \in PlatKeys : tg[postID, k] # <<>>}}
    IN  [k \in PlatformSet \cup rowKeys |-> k \in rowKeys]

\* An UPDATE of posts whose WHERE clause matches no row.
SetPostStatusNoRow(ps, postID, status) == ps

\* UPDATE posts SET status=$2 WHERE id=$1 (no row, no error).
SetPostStatus(ps, postID, status) ==
    [i \in DOMAIN ps |-> IF i = postID THEN [ps[i] EXCEPT !.Status = status] ELSE ps[i]]

\* A GetPost that returns no error when the row is absent.
GetPostNoError(ps, id) ==
    [err |-> "", post |-> IF id \in DOMAIN ps THEN Some(ps[id]) ELSE Nil]

GetPost(ps, id) ==
    IF id \in DOMAIN ps
    THEN [err |-> "", post |-> Some(ps[id])]
    ELSE [err |-> "post " \o ToString(id) \o " not found", post |-> Nil]

\* The INSERT with ON CONFLICT (post_id, platform) DO NOTHING.
SetTargetStatusDoNothing(tg, ps, postID, platform, status, externalID, errText) ==
    LET p == ToLower(platform)
        row == [status |-> status, external_post_id |-> externalID, error |-> errText]
    IN  IF ~PostExists(ps, postID)
        THEN [err |-> "set target status", targets |-> tg]
        ELSE [err |-> "",
              targets |-> [tg EXCEPT ![postID, p] = IF @ = <<>> THEN <<row>> ELSE @]]

\* The upsert with DO UPDATE SET external_post_id = COALESCE(EXCLUDED.external_post_id,
\* post_targets.external_post_id), and the same for error.
SetTargetStatusCoalesce(tg, ps, postID, platform, status, externalID, errText) ==
    LET p == ToLower(platform)
        row == [status |-> status, external_post_id |-> externalID, error |-> errText]
    IN  IF ~PostExists(ps, postID)
        THEN [err |-> "set target status", targets |-> tg]
        ELSE [err |-> "",
              targets |-> [tg EXCEPT ![postID, p] =
                  IF @ = <<>> THEN <<row>>
                  ELSE [i \in DOMAIN @ |->
                          [status |-> status,
                           external_post_id |-> IF externalID = Nil
                                                THEN @[i].external_post_id ELSE externalID,
                           error |-> IF errText = Nil THEN @[i].error ELSE errText]]]]

\* The upsert with DO UPDATE ... WHERE post_targets.status <> 'published'.
SetTargetStatusKeepPublished(tg, ps, postID, platform, status, externalID, errText) ==
    LET p == ToLower(platform)
        row == [status |-> status, external_post_id |-> externalID, error |-> errText]
    IN  IF ~PostExists(ps, postID)
        THEN [err |-> "set target status", targets |-> tg]
        ELSE [err |-> "",
              targets |-> [tg EXCEPT ![postID, p] =
                  IF @ = <<>> THEN <<row>>
                  ELSE [i \in DOMAIN @ |-> IF @[i].status = "published" THEN @[i] ELSE row]]]

\* INSERT ... ON CONFLICT (post_id, platform) DO UPDATE SET status, external_post_id, error.
SetTargetStatus(tg, ps, postID, platform, status, externalID, errText) ==
    LET p == ToLower(platform)
        row == [status |-> status, external_post_id |-> externalID, error |-> errText]
    IN  IF ~PostExists(ps, postID)
        THEN [err |-> "set target status", targets |-> tg]
        ELSE [err |-> "",
              targets |-> [tg EXCEPT ![postID, p] =
                  IF @ = <<>> THEN <<row>> ELSE [i \in DOMAIN @ |-> row]]]

AddLog(lg, ps, postID, platform, event, detail) ==
    IF ~PostExists(ps, postID)
    THEN [err |-> "add log", logs |-> lg]
    ELSE [err |-> "",
          logs |-> lg (+) SetToBag({[post |-> postID, platform |-> platform,
                                     event |-> event, detail |-> detail]})]

SetMax(S) == CHOOSE x \in S : \A y \in S : y <= x

\* SELECT COALESCE(MAX(position)+1,0) FROM post_media WHERE post_id=$1
NextPosition(md, postID) ==
    IF md[postID] = <<>> THEN 0
    ELSE SetMax({md[postID][i].position : i \in DOMAIN md[postID]}) + 1

\* The INSERT on a table that lacks UNIQUE(post_id, position).
InsertMediaNoUnique(md, ps, postID, fileID, mediaType, pos) ==
    IF ~PostExists(ps, postID)
    THEN [err |-> "insert media", media |-> md]
    ELSE [err |-> "",
          media |-> [md EXCEPT ![postID] =
              Append(@, [file |-> fileID, type |-> mediaType, position |-> pos])]]

\* INSERT INTO post_media (post_id, file_id, media_type, position), under
\* REFERENCES posts(id) and UNIQUE(post_id, position).
InsertMedia(md, ps, postID, fileID, mediaType, pos) ==
    IF ~PostExists(ps, postID) \/ \E i \in DOMAIN md[postID] : md[postID][i].position = pos
    THEN [err |-> "insert media", media |-> md]
    ELSE [err |-> "",
          media |-> [md EXCEPT ![postID] =
              Append(@, [file |-> fileID, type |-> mediaType, position |-> pos])]]

AddMedia(md, ps, postID, fileID, mediaType) ==
    LET pos == NextPosition(md, postID)
        t == IF mediaType = "" THEN "photo" ELSE mediaType
    IN  InsertMedia(md, ps, postID, fileID, t, pos)

RECURSIVE InsertByPosition(_, _)
InsertByPosition(s, m) ==
    IF s = <<>> THEN <<m>>
    ELSE IF m.position < Head(s).position THEN <<m>> \o s
    ELSE <<Head(s)>> \o InsertByPosition(Tail(s), m)

RECURSIVE SortByPosition(_)
SortByPosition(s) ==
    IF s = <<>> THEN <<>>
    ELSE InsertByPosition(SortByPosition(SubSeq(s, 1, Len(s) - 1)), s[Len(s)])

\* SELECT ... FROM post_media WHERE post_id=$1 ORDER BY position ASC
ListMedia(md, postID) == SortByPosition(md[postID])

\* SELECT COUNT(1) FROM post_media WHERE post_id=$1
CountMedia(md, postID) == Len(md[postID])

UpdatePostText(ps, postID, text) ==
    [i \in DOMAIN ps |-> IF i = postID THEN [ps[i] EXCEPT !.TextContent = text] ELSE ps[i]]

\* CASE WHEN text_content IS NULL OR text_content = '' THEN $2
\*      ELSE text_content || E'\n' || $2 END
AppendedTextAlwaysSep(cur, text) == cur \o <<NL>> \o text

\* An append that replaces the text, as UpdatePostText does.
AppendPostTextReplacing(ps, postID, text) ==
    [i \in DOMAIN ps |->
        IF i = postID THEN [ps[i] EXCEPT !.TextContent = text] ELSE ps[i]]

AppendedText(cur, text) == IF cur = <<>> THEN text ELSE cur \o <<NL>> \o text

AppendPostText(ps, postID, text) ==
    [i \in DOMAIN ps |->
        IF i = postID THEN [ps[i] EXCEPT !.TextContent = AppendedText(@, text)] ELSE ps[i]]

-----------------------------------------------------------------------------
(* State shared by the specifications *)

NoTargets == [k \in PostIds \X PlatKeys |-> <<>>]
NoMedia == [i \in PostIds |-> <<>>]
NoPosts == <<>>

IdleLoc == [kind |-> "none"]

\* Telegram file identifiers are never empty.
FileId == "file"

Photos(n) == [i \in 1..n |-> [file |-> FileId, type |-> "photo", position |-> i - 1]]

\* A draft as handlePostCommand creates it.
EmptyDraft == [Type |-> "text", TextContent |-> <<>>, PhotoFileID |-> Nil, Status |-> "draft"]

NoHist ==
    [base |-> [i \in PostIds |-> <<>>],
     frags |-> [i \in PostIds |-> <<>>],
     tgl |-> [k \in PostIds \X PlatformSet |-> <<>>],
     set |-> {}]

\* config.Config, as the bot reads it: the names of the string values that
\* are not empty, and the list AllowedUsers.
Config(values, users) == [nonEmpty |-> values, AllowedUsers |-> users]

\* The answers to one HTTP request: 2xx with the identifier asked for,
\* no answer (the transport fails), a status outside 2xx, 2xx without the
\* object that holds the identifier, 2xx with that object but no identifier.
Answers == {"ok", "down", "status", "nodata", "noid"}

\* The Content-Type headers of the file server: none, the unknown type, an
\* image type.
Headers == {"", "application/octet-stream", "image/png"}

\* Platforms that answer with an identifier or not at all, and a file
\* server that names the image type.
Reliable == [answers |-> {"ok", "down"}, headers |-> {"image/png"}]

NoCall == [op |-> "none", post |-> 0, err |-> "", before |-> 0, arg |-> "", ret |-> FALSE]

\* migrations/*.sql, the embedded files, as sort.Strings orders their names.
MigrationNames == <<"0001_init.sql", "0002_post_media.sql">>

MaxStartups == 3

\* A database no startup has reached yet, and the one a startup that
\* returned nil leaves.
NoSchema == [table |-> FALSE, rows |-> {}, applied |-> <<>>]

Migrated ==
    [table |-> TRUE,
     rows |-> {MigrationNames[i] : i \in DOMAIN MigrationNames},
     applied |-> MigrationNames]

-----------------------------------------------------------------------------
(* SpecStore: one caller, one repository call at a time *)

\* The store when the calls start: empty, or holding one draft of a /post
\* session to which 9 or 10 photos have been added.
InitStore ==
    /\ \/ /\ posts = NoPosts
          /\ nextPostId = 1 /\ schema = Migrated
          /\ media = NoMedia
       \/ \E n \in {MaxMedia - 1, MaxMedia} :
          /\ posts = CreatePost(NoPosts, 1, EmptyDraft).posts
          /\ nextPostId = 2 /\ schema = Migrated
          /\ media = [NoMedia EXCEPT ![1] = Photos(n)]
    /\ targets = NoTargets
    /\ logs = EmptyBag
    /\ sessions = [c \in {"chat"} |-> Nil]
    /\ cfg = Config({}, {})
    /\ remote = Reliable
    /\ pc = [h \in Handlers |-> "idle"]
    /\ loc = [h \in Handlers |-> IdleLoc]
    /\ ctxDone = [h \in Handlers |-> FALSE]
    /\ handled = 0
    /\ last = NoCall
    /\ hist = NoHist

Texts == {<<>>, <<"a">>, <<"b">>}

NewPosts ==
    {[Type |-> "text", TextContent |-> <<>>, PhotoFileID |-> Nil, Status |-> ""],
     [Type |-> "text", TextContent |-> <<"a">>, PhotoFileID |-> Nil, Status |-> ""],
     [Type |-> "photo", TextContent |-> <<"b">>, PhotoFileID |-> Some(FileId), Status |-> ""]}

BotIdle == UNCHANGED <<sessions, cfg, remote, pc, loc, ctxDone>>

Called(op, post, err, before) ==
    /\ handled < MaxOps
    /\ handled' = handled + 1
    /\ last' = [NoCall EXCEPT !.op = op, !.post = post, !.err = err, !.before = before]

StCreatePost ==
    \E p \in NewPosts :
        /\ nextPostId <= MaxPosts
        /\ LET r == CreatePost(posts, nextPostId, p) IN
           /\ posts' = r.posts
           /\ nextPostId' = nextPostId + 1 /\ UNCHANGED schema
           /\ hist' = [hist EXCEPT !.base[r.id] = p.TextContent]
           /\ Called("CreatePost", r.id, "", 0)
        /\ UNCHANGED <<targets, media, logs>>
        /\ BotIdle

StToggleTarget ==
    \E postID \in PostIds, name \in PlatformNames :
        LET r == ToggleTarget(targets, posts, postID, name) IN
        /\ targets' = r.targets
        /\ hist' = IF r.err = ""
                   THEN [hist EXCEPT !.tgl[postID, ToLower(name)] = Append(@, r.enabled)]
                   ELSE hist
        /\ handled < MaxOps
        /\ handled' = handled + 1
        /\ last' = [NoCall EXCEPT !.op = "ToggleTarget", !.post = postID, !.err = r.err,
                                  !.arg = name, !.ret = r.enabled]
        /\ UNCHANGED <<posts, nextPostId, schema, media, logs>>
        /\ BotIdle

Outcomes ==
    {[status |-> "published", ext |-> Some("x1"), error |-> Nil],
     [status |-> "failed", ext |-> Nil, error |-> Some("remote error")]}

StSetTargetStatus ==
    \E postID \in PostIds, name \in PlatformNames, o \in Outcomes :
        LET r == SetTargetStatus(targets, posts, postID, name, o.status, o.ext, o.error) IN
        /\ targets' = r.targets
        /\ hist' = IF r.err = ""
                   THEN [hist EXCEPT !.set = @ \cup {<<postID, ToLower(name)>>}]
                   ELSE hist
        /\ Called("SetTargetStatus", postID, r.err, 0)
        /\ UNCHANGED <<posts, nextPostId, schema, media, logs>>
        /\ BotIdle

StSetPostStatus ==
    \E postID \in PostIds, st \in {"queued", "canceled"} :
        /\ posts' = SetPostStatus(posts, postID, st)
        /\ Called("SetPostStatus", postID, "", 0)
        /\ UNCHANGED <<nextPostId, schema, targets, media, logs, hist>>
        /\ BotIdle

StAddMedia ==
    \E postID \in PostIds, t \in {"photo", "video", ""} :
        LET r == AddMedia(media, posts, postID, FileId, t) IN
        /\ media' = r.media
        /\ Called("AddMedia", postID, r.err, CountMedia(media, postID))
        /\ UNCHANGED <<posts, nextPostId, schema, targets, logs, hist>>
        /\ BotIdle

StAddLog ==
    \E postID \in PostIds, e \in {"error", "published"} :
        LET r == AddLog(logs, posts, postID, Some("twitter"), e, "detail") IN
        /\ logs' = r.logs
        /\ Called("AddLog", postID, r.err, 0)
        /\ UNCHANGED <<posts, nextPostId, schema, targets, media, hist>>
        /\ BotIdle

StAppendPostText ==
    \E postID \in PostIds, t \in Texts :
        /\ posts' = AppendPostText(posts, postID, t)
        /\ hist' = IF PostExists(posts, postID)
                   THEN [hist EXCEPT !.frags[postID] = Append(@, t)]
                   ELSE hist
        /\ Called("AppendPostText", postID, "", 0)
        /\ UNCHANGED <<nextPostId, schema, targets, media, logs>>
        /\ BotIdle

StUpdatePostText ==
    \E postID \in PostIds, t \in Texts :
        /\ posts' = UpdatePostText(posts, postID, t)
        /\ hist' = IF PostExists(posts, postID)
                   THEN [hist EXCEPT !.base[postID] = t, !.frags[postID] = <<>>]
                   ELSE hist
        /\ Called("UpdatePostText", postID, "", 0)
        /\ UNCHANGED <<nextPostId, schema, targets, media, logs>>
        /\ BotIdle

NextStore ==
    \/ StCreatePost
    \/ StToggleTarget
    \/ StSetTargetStatus
    \/ StSetPostStatus
    \/ StAddMedia
    \/ StAddLog
    \/ StAppendPostText
    \/ StUpdatePostText

SpecStore == InitStore /\ [][NextStore]_vars

-----------------------------------------------------------------------------
(* SpecCompose: the message handlers of one chat.  startLongPolling starts  *)
(* a goroutine per update, so the handlers of several messages interleave   *)
(* at their repository statements.                                          *)

Chat == "chat"

\* Bot.getSession / setSession / clearSession, each under Bot.mu.
getSession(ss, chatID) == ss[chatID]
setSession(ss, chatID, s) == [ss EXCEPT ![chatID] = Some(s)]
clearSession(ss, chatID) == [ss EXCEPT ![chatID] = Nil]

RECURSIVE TrimLeft(_)
TrimLeft(t) == IF t # <<>> /\ Head(t) = " " THEN TrimLeft(Tail(t)) ELSE t

RECURSIVE TrimRight(_)
TrimRight(t) ==
    IF t # <<>> /\ t[Len(t)] = " " THEN TrimRight(SubSeq(t, 1, Len(t) - 1)) ELSE t

\* strings.TrimSpace
TrimSpace(t) == TrimRight(TrimLeft(t))

\* The messages of the model: a photo or a video with or without a caption,
\* a text, a text of spaces, and a message with none of these (a sticker).
NoMsg == [photo |-> FALSE, video |-> FALSE, caption |-> <<>>, text |-> <<>>]

Messages ==
    {[NoMsg EXCEPT !.photo = TRUE],
     [NoMsg EXCEPT !.photo = TRUE, !.caption = <<"a", " ">>],
     [NoMsg EXCEPT !.video = TRUE],
     [NoMsg EXCEPT !.video = TRUE, !.caption = <<"b">>],
     [NoMsg EXCEPT !.text = <<" ", "b">>],
     [NoMsg EXCEPT !.text = <<" ">>],
     NoMsg}

InitCompose ==
    /\ \E n \in {0, MaxMedia - 1} : media = [NoMedia EXCEPT ![1] = Photos(n)]
    /\ posts = CreatePost(NoPosts, 1, EmptyDraft).posts
    /\ nextPostId = 2 /\ schema = Migrated
    /\ targets = NoTargets
    /\ logs = EmptyBag
    /\ sessions = setSession([c \in {Chat} |-> Nil], Chat, [PostID |-> 1, Step |-> "compose"])
    /\ cfg = Config({}, {})
    /\ remote = Reliable
    /\ pc = [h \in Handlers |-> "idle"]
    /\ loc = [h \in Handlers |-> IdleLoc]
    /\ ctxDone = [h \in Handlers |-> FALSE]
    /\ handled = 0
    /\ last = NoCall
    /\ hist = NoHist

Goto(h, p, l) ==
    /\ pc' = [pc EXCEPT ![h] = p]
    /\ loc' = [loc EXCEPT ![h] = l]

\* handleMessage: the part of the message the compose branch turns to after
\* `stage` ("photo", then "video", then "text", then the end of the handler).
AfterStage(m, stage) ==
    IF stage = "start" /\ m.photo THEN "photo"
    ELSE IF stage \in {"start", "photo"} /\ m.video THEN "video"
    ELSE IF stage \in {"start", "photo", "video"} /\ TrimSpace(m.text) # <<>> THEN "text"
    ELSE "end"

StagePc(stage) == IF stage = "end" THEN "m_end" ELSE IF stage = "text" THEN "m_text" ELSE "m_count"

Advance(h, l) ==
    LET st == AfterStage(l.msg, l.stage) IN Goto(h, StagePc(st), [l EXCEPT !.stage = st])

StoreIdle == UNCHANGED <<posts, nextPostId, schema, targets, media, logs>>
Quiet == UNCHANGED <<cfg, remote, ctxDone, last, hist>>

\* handleMessage, a message that is no command, in a chat whose session is at
\* step "compose": b.getSession.
MsgStart(h) ==
    \E m \in Messages :
        /\ pc[h] = "idle"
        /\ handled < MaxMsgs
        /\ getSession(sessions, Chat) # Nil
        /\ getSession(sessions, Chat)[1].Step = "compose"
        /\ handled' = handled + 1
        /\ Advance(h, [kind |-> "msg", msg |-> m, stage |-> "start",
                       post |-> getSession(sessions, Chat)[1].PostID,
                       cnt |-> 0, pos |-> 0, added |-> FALSE])
        /\ StoreIdle /\ Quiet /\ UNCHANGED sessions

\* cnt, _ := b.repo.CountMedia(ctx, s.PostID); if cnt < 10 { AddMedia } else { reply }
MsgCount(h) ==
    /\ pc[h] = "m_count"
    /\ LET cnt == CountMedia(media, loc[h].post) IN
       IF cnt < MaxMedia
       THEN Goto(h, "m_pos", [loc[h] EXCEPT !.cnt = cnt])
       ELSE Advance(h, [loc[h] EXCEPT !.cnt = cnt])
    /\ StoreIdle /\ Quiet /\ UNCHANGED <<sessions, handled>>

\* AddMedia, its first statement: the next position.
MsgNextPos(h) ==
    /\ pc[h] = "m_pos"
    /\ Goto(h, "m_ins", [loc[h] EXCEPT !.pos = NextPosition(media, loc[h].post)])
    /\ StoreIdle /\ Quiet /\ UNCHANGED <<sessions, handled>>

\* AddMedia, its second statement: the INSERT.
MsgInsert(h) ==
    /\ pc[h] = "m_ins"
    /\ LET l == loc[h]
           r == InsertMedia(media, posts, l.post, FileId, l.stage, l.pos)
       IN  /\ media' = r.media
           /\ last' = [NoCall EXCEPT !.op = "AddMedia", !.post = l.post, !.err = r.err,
                                     !.before = l.cnt]
           /\ IF r.err = ""
              THEN IF TrimSpace(l.msg.caption) # <<>>
                   THEN Goto(h, "m_cap", [l EXCEPT !.cnt = l.cnt + 1, !.added = TRUE])
                   ELSE Advance(h, [l EXCEPT !.cnt = l.cnt + 1, !.added = TRUE])
              ELSE Advance(h, l)
    /\ UNCHANGED <<posts, nextPostId, schema, targets, logs, sessions, handled, cfg, remote, ctxDone, hist>>

\* _ = b.repo.AppendPostText(ctx, s.PostID, cap)
MsgCaption(h) ==
    /\ pc[h] = "m_cap"
    /\ posts' = AppendPostText(posts, loc[h].post, TrimSpace(loc[h].msg.caption))
    /\ Advance(h, loc[h])
    /\ UNCHANGED <<nextPostId, schema, targets, media, logs, sessions, handled>> /\ Quiet

\* if t := strings.TrimSpace(message.Text); t != "" { AppendPostText }
MsgText(h) ==
    /\ pc[h] = "m_text"
    /\ posts' = AppendPostText(posts, loc[h].post, TrimSpace(loc[h].msg.text))
    /\ Advance(h, [loc[h] EXCEPT !.added = TRUE])
    /\ UNCHANGED <<nextPostId, schema, targets, media, logs, sessions, handled>> /\ Quiet

\* The replies and the keyboard (a ListTargets read) end the handler.
MsgEnd(h) ==
    /\ pc[h] = "m_end"
    /\ Goto(h, "idle", IdleLoc)
    /\ StoreIdle /\ Quiet /\ UNCHANGED <<sessions, handled>>

\* handlePostCommand: CreatePost ...
PostCmdCreate(h) ==
    /\ pc[h] = "idle"
    /\ handled < MaxMsgs
    /\ nextPostId <= MaxPosts
    /\ handled' = handled + 1
    /\ LET r == CreatePost(posts, nextPostId, EmptyDraft) IN
       /\ posts' = r.posts
       /\ nextPostId' = nextPostId + 1 /\ UNCHANGED schema
       /\ Goto(h, "c_session", [kind |-> "post", post |-> r.id])
    /\ UNCHANGED <<targets, media, logs, sessions>> /\ Quiet

\* ... then b.setSession(chat, &PostSession{PostID: postID, Step: "compose"}).
PostCmdSession(h) ==
    /\ pc[h] = "c_session"
    /\ sessions' = setSession(sessions, Chat, [PostID |-> loc[h].post, Step |-> "compose"])
    /\ Goto(h, "idle", IdleLoc)
    /\ StoreIdle /\ Quiet /\ UNCHANGED handled

NextCompose ==
    \E h \in Handlers :
        \/ MsgStart(h)
        \/ MsgCount(h)
        \/ MsgNextPos(h)
        \/ MsgInsert(h)
        \/ MsgCaption(h)
        \/ MsgText(h)
        \/ MsgEnd(h)
        \/ PostCmdCreate(h)
        \/ PostCmdSession(h)

SpecCompose == InitCompose /\ [][NextCompose]_vars

-----------------------------------------------------------------------------
(* Spec: the callback handlers.  handleCallbackQuery and                    *)
(* handlePostSetupCallback run on the goroutine of their update; a step of  *)
(* a handler is one repository statement, one use of the session map or one *)
(* remote call, together with the local code before it.                     *)

\* The platforms publishSelected dispatches, in its order.
Connectors == <<"twitter", "pinterest", "facebook", "instagram">>

ConnectorSet == {Connectors[i] : i \in DOMAIN Connectors}

SetMin(S) == CHOOSE x \in S : \A y \in S : x <= y

\* A dispatch that takes the last selected platform first.
NextSelectedLast(sel, idx) ==
    LET later == {j \in DOMAIN Connectors : j > idx /\ sel[Connectors[j]]}
    IN  IF later = {} THEN 0 ELSE CHOOSE x \in later : \A y \in later : y <= x

\* A dispatch that reads the selection of the first post again before it
\* goes on to the next platform.
NextSelectedReread(sel, idx) ==
    LET now == ListTargets(targets, 1)
        later == {j \in DOMAIN Connectors : j > idx /\ now[Connectors[j]]}
    IN  IF later = {} THEN 0 ELSE SetMin(later)

\* The index of the next platform after idx whose selection is true (0: none).
NextSelected(sel, idx) ==
    LET later == {j \in DOMAIN Connectors : j > idx /\ sel[Connectors[j]]}
    IN  IF later = {} THEN 0 ELSE SetMin(later)

\* A publishSelected that goes on to the next platform after a failure.
AfterAttemptContinue(failed, sel, idx) == NextSelected(sel, idx)

\* publishSelected: `if err := b.publishToX(ctx, post); err != nil { return err }`.
AfterAttempt(failed, sel, idx) == IF failed THEN 0 ELSE NextSelected(sel, idx)

\* The configuration values publishToX requires of platform p.
ConfigValues(p) ==
    CASE p = "twitter" -> {"TwitterConsumerKey", "TwitterConsumerSecret",
                           "TwitterAccessToken", "TwitterAccessSecret"}
      [] p = "pinterest" -> {"PinterestAccessToken", "PinterestBoardID"}
      [] p = "facebook" -> {"FacebookAccessToken", "FacebookPageID"}
      [] p = "instagram" -> {"InstagramAccessToken", "InstagramUserID"}

AllValues == UNION {ConfigValues(p) : p \in ConnectorSet}

\* A check of the configuration that one present value satisfies.
ConfiguredAnyValue(c, p) == ConfigValues(p) \cap c.nonEmpty # {}

\* The first test of publishToX: no required value is the empty string.
Configured(c, p) == ConfigValues(p) \subseteq c.nonEmpty

\* The error texts of the publishToX functions.
CredsMsg(p) ==
    CASE p = "twitter" -> "Twitter credentials missing"
      [] p = "pinterest" -> "Pinterest token or board ID missing"
      [] p = "facebook" -> "Facebook access token or page ID missing"
      [] p = "instagram" -> "Instagram access token or user ID missing"

ImageMsg(p) ==
    CASE p = "pinterest" -> "Pinterest requires an image"
      [] p = "instagram" -> "Instagram requires an image"

\* What precedes the error of a failed fetch in the log.
FetchPrefix(p) == IF p = "instagram" THEN "telegram get url: " ELSE "telegram download: "

FetchErr(p) == IF p = "instagram" THEN "get file: error" ELSE "telegram file download status 404"

\* What precedes the external id in the log.
IdPrefix(p) ==
    CASE p = "twitter" -> "tweet_id="
      [] p = "pinterest" -> "pin_id="
      [] OTHER -> "id="

\* A platform whose publishToX fails when no image is found, with the mutant
\* that lets instagram through.
NeedsImagePinterestOnly(p) == p = "pinterest"

NeedsImage(p) == p \in {"pinterest", "instagram"}

\* The file id of the first item of kind photo ("" when there is none).
FirstPhoto(items) ==
    LET idx == {i \in DOMAIN items : items[i].type = "photo"}
    IN  IF idx = {} THEN "" ELSE items[SetMin(idx)].file

\* The file ids publishToTwitter downloads from a non-empty collection: the
\* photos among its first 4 items.
RECURSIVE PhotoFiles(_)
PhotoFiles(items) ==
    IF items = <<>> THEN <<>>
    ELSE (IF Head(items).type = "photo" THEN <<Head(items).file>> ELSE <<>>)
         \o PhotoFiles(Tail(items))

FirstFour(items) == SubSeq(items, 1, IF Len(items) > 4 THEN 4 ELSE Len(items))

\* A choice of files that turns to the legacy photo when the collection
\* holds no photo.
WantedFilesPhotoless(p, items, photoFileID) ==
    IF FirstPhoto(items) # ""
    THEN IF p = "twitter" THEN PhotoFiles(FirstFour(items)) ELSE <<FirstPhoto(items)>>
    ELSE IF photoFileID # Nil THEN <<photoFileID[1]>> ELSE <<>>

\* The files a publishToX function goes on to fetch: from the collection when
\* ListMedia returned at least one item, else the legacy PhotoFileID.
WantedFiles(p, items, photoFileID) ==
    IF Len(items) > 0
    THEN IF p = "twitter" THEN PhotoFiles(FirstFour(items))
         ELSE IF FirstPhoto(items) = "" THEN <<>> ELSE <<FirstPhoto(items)>>
    ELSE IF photoFileID # Nil THEN <<photoFileID[1]>> ELSE <<>>

NoOut == [status |-> "", ext |-> Nil, error |-> Nil, prefix |-> "", images |-> 0]

Failed(msg, prefix) == [NoOut EXCEPT !.status = "failed", !.error = Some(msg), !.prefix = prefix]

\* The identifier the platform hands out for the call of invocation inv.
ExtId(inv, p) == "x" \o ToString(inv)

Published(id, prefix, n) ==
    [NoOut EXCEPT !.status = "published", !.ext = Some(id), !.prefix = prefix, !.images = n]

\* The detail of the log entry of an outcome: prefix and error text or id.
LogDetail(o) == o.prefix \o (IF o.status = "failed" THEN o.error[1] ELSE o.ext[1])

-----------------------------------------------------------------------------
(* The connectors.  Each takes the results of the HTTP requests it makes    *)
(* (see Answers) and returns the id, the error text ("" for nil) and the    *)
(* requests it sent.                                                        *)

\* The result of a request answered as `kind`; id is the identifier that a
\* full answer carries.
Answer(kind, id) ==
    [err |-> kind = "down",
     code |-> IF kind = "down" THEN 0 ELSE IF kind = "status" THEN 500 ELSE 200,
     data |-> kind \in {"ok", "noid"},
     id |-> IF kind = "ok" THEN id ELSE ""]

Is2xx(code) == code >= 200 /\ code < 300

TransportErr == "remote error"

\* A request a connector made, with the result it got.
Request(to, creation, ctype, resp) ==
    [to |-> to, creation_id |-> creation, content_type |-> ctype, media_ids |-> <<>>,
     resp |-> resp]

Return(id, err, reqs) == [id |-> id, err |-> err, reqs |-> reqs]

\* downloadTelegramFile: the content type it returns for a Content-Type header.
downloadTelegramFile(header) == IF header = "" THEN "application/octet-stream" ELSE header

\* strings.HasPrefix(strings.ToLower(ctype), "image/")
HasImagePrefix(ctype) == ctype \in {"image/png", "image/jpeg"}

\* The content types publishToX hands to its connector for the downloaded
\* files.
HandedTypes(p, ctypes) ==
    [i \in DOMAIN ctypes |->
        CASE p = "twitter" ->
                 IF ctypes[i] = "application/octet-stream" \/ ctypes[i] = ""
                 THEN "image/jpeg" ELSE ctypes[i]
          [] p = "pinterest" -> IF ctypes[i] = "" THEN "image/jpeg" ELSE ctypes[i]
          [] OTHER -> ctypes[i]]

\* twitter.Client.uploadSimpleMedia
uploadSimpleMedia(resp) ==
    IF resp.err THEN Return("", TransportErr, <<>>)
    ELSE IF ~Is2xx(resp.code) THEN Return("", "upload status 500: ", <<>>)
    ELSE IF resp.id = "" THEN Return("", "missing media id in response", <<>>)
    ELSE Return(resp.id, "", <<>>)

\* The uploads Publish makes for mediaTypes: one for each of the first 4
\* entries whose type is an image type.
Uploads(mediaTypes) ==
    Cardinality({i \in DOMAIN mediaTypes : i <= 4 /\ HasImagePrefix(mediaTypes[i])})

\* A Publish that leaves out the media whose upload failed.
PublishWithoutFailed(mediaTypes, ups, resp) ==
    LET n == Uploads(mediaTypes)
        reqs == [k \in 1..n |-> Request("media/upload", "", "", ups[k])]
        good == SelectSeq(reqs, LAMBDA r : uploadSimpleMedia(r.resp).err = "")
        tweet == <<[Request("tweets", "", "", resp) EXCEPT
                       !.media_ids = [k \in DOMAIN good |-> good[k].resp.id]]>>
    IN  IF resp.err \/ ~Is2xx(resp.code)
        THEN Return("", "create tweet: " \o TransportErr, reqs \o tweet)
        ELSE IF ~resp.data
        THEN Return("", "empty response from twitter", reqs \o tweet)
        ELSE Return(resp.id, "", reqs \o tweet)

\* twitter.Client.Publish: the images among the first 4 files are uploaded
\* one after the other (ups[k] answers the k-th upload), then the tweet is
\* created with their media ids (resp answers it).
Publish(mediaTypes, ups, resp) ==
    LET n == Uploads(mediaTypes)
        reqs == [k \in 1..n |-> Request("media/upload", "", "", ups[k])]
        failing == {k \in 1..n : uploadSimpleMedia(ups[k]).err # ""}
        tweet == <<[Request("tweets", "", "", resp) EXCEPT
                       !.media_ids = [k \in 1..n |-> uploadSimpleMedia(ups[k]).id]]>>
    IN  IF failing # {}
        THEN Return("", "media upload failed: " \o uploadSimpleMedia(ups[SetMin(failing)]).err,
                    SubSeq(reqs, 1, SetMin(failing)))
        ELSE IF resp.err \/ ~Is2xx(resp.code)
        THEN Return("", "create tweet: " \o TransportErr, reqs \o tweet)
        ELSE IF ~resp.data
        THEN Return("", "empty response from twitter", reqs \o tweet)
        ELSE Return(resp.id, "", reqs \o tweet)

\* pinterest.Client.CreatePin
CreatePin(boardID, contentType, resp) ==
    LET req == <<Request("pins", "", IF contentType = "" THEN "image/jpeg" ELSE contentType, resp)>>
    IN  IF ~boardID THEN Return("", "pinterest board id missing", <<>>)
        ELSE IF resp.err THEN Return("", TransportErr, req)
        ELSE IF ~Is2xx(resp.code) THEN Return("", "pinterest create pin status 500: 500 Internal Server Error", req)
        ELSE IF resp.id = "" THEN Return("", "pinterest: missing pin id in response", req)
        ELSE Return(resp.id, "", req)

\* facebook.Client.postFeed
postFeed(resp) ==
    LET req == <<Request("feed", "", "", resp)>>
    IN  IF resp.err THEN Return("", TransportErr, req)
        ELSE IF ~Is2xx(resp.code) THEN Return("", "facebook feed status 500: ", req)
        ELSE IF resp.id = "" THEN Return("", "facebook: missing id in response", req)
        ELSE Return(resp.id, "", req)

\* facebook.Client.uploadPhoto
uploadPhoto(contentType, resp) ==
    LET req == <<Request("photos", "", IF contentType = "" THEN "image/jpeg" ELSE contentType, resp)>>
    IN  IF resp.err THEN Return("", TransportErr, req)
        ELSE IF ~Is2xx(resp.code) THEN Return("", "facebook photo status 500: ", req)
        ELSE IF resp.id = "" THEN Return("", "facebook: missing id in response", req)
        ELSE Return(resp.id, "", req)

\* facebook.Client.CreatePost: with an image uploadPhoto, else postFeed.
FacebookCreatePost(pageID, contentTypes, resp) ==
    IF ~pageID THEN Return("", "facebook page id missing", <<>>)
    ELSE IF Len(contentTypes) > 0 THEN uploadPhoto(contentTypes[1], resp)
    ELSE postFeed(resp)

\* A CreatePhotoPost that publishes whatever phase 1 answered.
CreatePhotoPostOnePhase(igUserID, resp1, resp2) ==
    LET create == <<Request("media", "", "", resp1)>>
        both == create \o <<Request("media_publish", resp1.id, "", resp2)>>
    IN  IF ~igUserID THEN Return("", "instagram user id missing", <<>>)
        ELSE IF resp2.err THEN Return("", TransportErr, both)
        ELSE IF ~Is2xx(resp2.code)
        THEN Return("", "instagram media publish status 500: ", both)
        ELSE IF resp2.id = ""
        THEN Return("", "instagram: missing media id in response", both)
        ELSE Return(resp2.id, "", both)

\* instagram.Client.CreatePhotoPost: create the container (resp1), then
\* publish it (resp2) under the creation id of resp1.
CreatePhotoPost(igUserID, resp1, resp2) ==
    LET create == <<Request("media", "", "", resp1)>>
        both == create \o <<Request("media_publish", resp1.id, "", resp2)>>
    IN  IF ~igUserID THEN Return("", "instagram user id missing", <<>>)
        ELSE IF resp1.err THEN Return("", TransportErr, create)
        ELSE IF ~Is2xx(resp1.code)
        THEN Return("", "instagram media create status 500: ", create)
        ELSE IF resp1.id = "" THEN Return("", "instagram: missing creation id", create)
        ELSE IF resp2.err THEN Return("", TransportErr, both)
        ELSE IF ~Is2xx(resp2.code)
        THEN Return("", "instagram media publish status 500: ", both)
        ELSE IF resp2.id = ""
        THEN Return("", "instagram: missing media id in response", both)
        ELSE Return(resp2.id, "", both)

\* The identifier of the first of two requests of invocation inv: the media
\* id of an upload to twitter, the creation id of instagram.
FirstId(inv) == "c" \o ToString(inv)

\* The media id twitter hands out for the k-th upload of invocation inv.
UploadId(inv, k) == "m" \o ToString(inv) \o "." \o ToString(k)

\* The connector call of publishToX, given the types of the downloaded
\* files and the results of the connector's requests.
Connector(p, c, types, ups, resp1, resp2) ==
    CASE p = "twitter" -> Publish(types, ups, resp2)
      [] p = "pinterest" -> CreatePin("PinterestBoardID" \in c.nonEmpty, types[1], resp2)
      [] p = "facebook" -> FacebookCreatePost("FacebookPageID" \in c.nonEmpty, types, resp2)
      [] p = "instagram" -> CreatePhotoPost("InstagramUserID" \in c.nonEmpty, resp1, resp2)

PubKinds == {"pub", "confirm"}

PubLoc(kind, inv, postID, rows) ==
    [kind |-> kind, inv |-> inv, post |-> postID, rows0 |-> rows,
     sel |-> <<>>, snap |-> Nil, idx |-> 0, want |-> <<>>, legacy |-> FALSE,
     got |-> 0, ctypes |-> <<>>, handed |-> <<>>, reqs |-> <<>>, out |-> NoOut, res |-> "",
     \* history of the invocation
     att |-> {}, fetched |-> {}, called |-> {}, wrote |-> {}, logged |-> {},
     outs |-> [p \in ConnectorSet |-> NoOut], stored |-> {},
     dirty |-> {}, canceled |-> FALSE]

\* The drafts a publish starts from: a text message, a photo message, and
\* /post sessions that received a photo, a video, or a text only.
Drafts ==
    {[post |-> [EmptyDraft EXCEPT !.TextContent = <<"a">>], media |-> <<>>, session |-> FALSE],
     [post |-> [EmptyDraft EXCEPT !.Type = "photo", !.PhotoFileID = Some(FileId)],
      media |-> <<>>, session |-> FALSE],
     [post |-> EmptyDraft, media |-> Photos(1), session |-> TRUE],
     [post |-> [EmptyDraft EXCEPT !.TextContent = <<"b">>],
      media |-> <<[file |-> FileId, type |-> "video", position |-> 0]>>, session |-> TRUE]}

\* The configurations: every value present; every platform without one of
\* its values; twitter and facebook complete, pinterest without its token
\* and instagram without its user id.
Configs ==
    {Config(AllValues, {}),
     Config(AllValues \ {"TwitterAccessSecret", "PinterestBoardID", "FacebookPageID",
                         "InstagramAccessToken"}, {}),
     Config(AllValues \ {"PinterestAccessToken", "InstagramUserID"}, {})}

Init ==
    /\ \E d \in Drafts :
          /\ posts = CreatePost(NoPosts, 1, d.post).posts
          /\ media = [NoMedia EXCEPT ![1] = d.media]
          /\ sessions = IF d.session
                        THEN setSession([c \in {Chat} |-> Nil], Chat,
                                        [PostID |-> 1, Step |-> "compose"])
                        ELSE [c \in {Chat} |-> Nil]
    /\ cfg \in Configs
    /\ remote = Reliable
    /\ nextPostId = 2 /\ schema = Migrated
    /\ targets = NoTargets
    /\ logs = EmptyBag
    /\ pc = [h \in Handlers |-> "idle"]
    /\ loc = [h \in Handlers |-> IdleLoc]
    /\ ctxDone = [h \in Handlers |-> FALSE]
    /\ handled = 0
    /\ last = NoCall
    /\ hist = NoHist

\* What a write of handler h to `what` of post postID leaves in the history
\* of the publish invocations of the other handlers.
Mark(l, postID, what) ==
    IF l.kind \in PubKinds /\ l.post = postID
    THEN IF what = "canceled" THEN [l EXCEPT !.canceled = TRUE]
         ELSE [l EXCEPT !.dirty = @ \cup {what}]
    ELSE l

GotoMarking(h, p, l, postID, what) ==
    /\ pc' = [pc EXCEPT ![h] = p]
    /\ loc' = [g \in Handlers |-> IF g = h THEN l ELSE Mark(loc[g], postID, what)]

Accept(h) ==
    /\ pc[h] = "idle"
    /\ handled < MaxUpdates
    /\ handled' = handled + 1
    /\ ctxDone' = [ctxDone EXCEPT ![h] = FALSE]

Same == UNCHANGED <<cfg, remote, ctxDone, handled, last>>

\* The end of publishSelected: back in the handler, which reports res.
Finish(h, l, res) ==
    Goto(h, IF l.kind = "confirm" THEN "cf_clear" ELSE "done", [l EXCEPT !.res = res])

\* Callback pub:<id> or ps:confirm:<id>: b.repo.SetPostStatus(ctx, id, "queued").
PubQueue(h) ==
    \E kind \in PubKinds, postID \in PostIds :
        /\ Accept(h)
        /\ posts' = SetPostStatus(posts, postID, "queued")
        /\ Goto(h, "p_list", PubLoc(kind, handled + 1, postID,
                                  [p \in ConnectorSet |-> targets[postID, p]]))
        /\ UNCHANGED <<nextPostId, schema, targets, media, logs, sessions, cfg, remote, last, hist>>

\* publishSelected: selections, err := b.repo.ListTargets(ctx, postID)
PubList(h) ==
    /\ pc[h] = "p_list"
    /\ IF ctxDone[h]
       THEN Finish(h, loc[h], "list targets")
       ELSE Goto(h, "p_get", [loc[h] EXCEPT !.sel = ListTargets(targets, loc[h].post)])
    /\ StoreIdle /\ Same /\ UNCHANGED <<sessions, hist>>

\* publishSelected: post, err := b.repo.GetPost(ctx, postID), then the first
\* selected platform.
PubGet(h) ==
    /\ pc[h] = "p_get"
    /\ LET l == loc[h]
           r == GetPost(posts, l.post)
           first == NextSelected(l.sel, 0)
       IN  IF ctxDone[h] THEN Finish(h, l, "get post")
           ELSE IF r.err # "" THEN Finish(h, l, r.err)
           ELSE IF first = 0 THEN Finish(h, [l EXCEPT !.snap = r.post], "")
           ELSE Goto(h, "p_media", [l EXCEPT !.snap = r.post, !.idx = first])
    /\ StoreIdle /\ Same /\ UNCHANGED <<sessions, hist>>

\* publishToX up to its ListMedia: the configuration check, the media of the
\* post, and the check that a required image exists.
PubMedia(h) ==
    /\ pc[h] = "p_media"
    /\ LET l0 == loc[h]
           p == Connectors[l0.idx]
           l == [l0 EXCEPT !.att = @ \cup {p}, !.got = 0, !.want = <<>>, !.legacy = FALSE,
                           !.ctypes = <<>>, !.handed = <<>>, !.reqs = <<>>]
           items == IF ctxDone[h] THEN <<>> ELSE ListMedia(media, l.post)
           want == WantedFiles(p, items, l.snap[1].PhotoFileID)
       IN  IF ~Configured(cfg, p)
           THEN Goto(h, "p_write", [l EXCEPT !.out = Failed(CredsMsg(p), "")])
           ELSE IF NeedsImage(p) /\ want = <<>>
           THEN Goto(h, "p_write", [l EXCEPT !.out = Failed(ImageMsg(p), "")])
           ELSE IF want = <<>>
           THEN Goto(h, "p_call", l)
           ELSE Goto(h, "p_fetch", [l EXCEPT !.want = want, !.legacy = (Len(items) = 0)])
    /\ StoreIdle /\ Same /\ UNCHANGED <<sessions, hist>>

\* What publishToX does with n of its fetches successful: twitter drops the
\* files it could not download, facebook posts without the photo of a
\* collection; the others, and facebook on the legacy photo, fail.
AfterFetch(p, l, n) ==
    IF n = Len(l.want) \/ p = "twitter" \/ (p = "facebook" /\ ~l.legacy)
    THEN [pc |-> "p_call", loc |-> [l EXCEPT !.got = n]]
    ELSE [pc |-> "p_write", loc |-> [l EXCEPT !.out = Failed(FetchErr(p), FetchPrefix(p))]]

\* downloadTelegramFile (twitter, pinterest, facebook) or getTelegramFileURL
\* (instagram) for the wanted files; only the download takes the context.
PubFetch(h) ==
    /\ pc[h] = "p_fetch"
    /\ LET p == Connectors[loc[h].idx]
           l == [loc[h] EXCEPT !.fetched = @ \cup {p}]
       IN  \E n \in 0..Len(l.want) :
           \E hs \in [1..(IF p = "instagram" THEN 0 ELSE n) -> remote.headers] :
              /\ (ctxDone[h] /\ p # "instagram") => n = 0
              /\ Goto(h, AfterFetch(p, l, n).pc,
                      [AfterFetch(p, l, n).loc EXCEPT
                          !.ctypes = [i \in DOMAIN hs |-> downloadTelegramFile(hs[i])]])
    /\ StoreIdle /\ Same /\ UNCHANGED <<sessions, hist>>

\* The connector call: twc.Publish, cli.CreatePin, cli.CreatePost,
\* cli.CreatePhotoPost.  It returns an id or an error.
PubCall(h) ==
    /\ pc[h] = "p_call"
    /\ LET p == Connectors[loc[h].idx]
           l == [loc[h] EXCEPT !.called = @ \cup {p}]
       IN  \E k1, k2 \in remote.answers, at \in 1..4 :
              LET types == HandedTypes(p, l.ctypes)
                  ups == [k \in 1..4 |->
                             Answer(IF ctxDone[h] THEN "down" ELSE IF k = at THEN k1 ELSE "ok",
                                    UploadId(l.inv, k))]
                  r == Connector(p, cfg, types, ups,
                                 Answer(IF ctxDone[h] THEN "down" ELSE k1, FirstId(l.inv)),
                                 Answer(IF ctxDone[h] THEN "down" ELSE k2, ExtId(l.inv, p)))
              IN  Goto(h, "p_write",
                       [l EXCEPT !.handed = types, !.reqs = r.reqs,
                                 !.out = IF r.err = ""
                                         THEN Published(r.id, IdPrefix(p), l.got)
                                         ELSE Failed(r.err, "")])
    /\ StoreIdle /\ Same /\ UNCHANGED <<sessions, hist>>

\* _ = b.repo.SetTargetStatus(ctx, p.ID, platform, status, id, errText)
PubWrite(h) ==
    /\ pc[h] = "p_write"
    /\ LET l == loc[h]
           p == Connectors[l.idx]
           r == SetTargetStatus(targets, posts, l.post, p, l.out.status, l.out.ext, l.out.error)
       IN  /\ targets' = IF ctxDone[h] THEN targets ELSE r.targets
           /\ hist' = IF ctxDone[h] \/ r.err # "" THEN hist
                      ELSE [hist EXCEPT !.set = @ \cup {<<l.post, p>>}]
           /\ GotoMarking(h, "p_log",
                          [l EXCEPT !.wrote = @ \cup {p},
                                    !.stored = IF ctxDone[h] \/ r.err # ""
                                               THEN @ ELSE @ \cup {p},
                                    !.dirty = IF ctxDone[h] \/ r.err # ""
                                              THEN @ ELSE @ \ {p}],
                          l.post, p)
    /\ UNCHANGED <<posts, nextPostId, schema, media, logs, sessions>> /\ Same

\* _ = b.repo.AddLog(ctx, p.ID, ptr(platform), event, detail), the return of
\* publishToX, and in publishSelected the return or the next platform.
PubLog(h) ==
    /\ pc[h] = "p_log"
    /\ LET l0 == loc[h]
           p == Connectors[l0.idx]
           o == l0.out
           event == IF o.status = "failed" THEN "error" ELSE "published"
           r == AddLog(logs, posts, l0.post, Some(p), event, LogDetail(o))
           l == [l0 EXCEPT !.logged = @ \cup {p}, !.outs[p] = o]
           next == AfterAttempt(o.status = "failed", l.sel, l.idx)
       IN  /\ logs' = IF ctxDone[h] THEN logs ELSE r.logs
           /\ IF next = 0
              THEN Finish(h, l, IF o.status = "failed" THEN o.error[1] ELSE "")
              ELSE Goto(h, "p_media", [l EXCEPT !.idx = next])
    /\ UNCHANGED <<posts, nextPostId, schema, targets, media, sessions, hist>> /\ Same

\* ps:confirm, after publishSelected: b.clearSession(q.Message.Chat.ID)
ConfirmClear(h) ==
    /\ pc[h] = "cf_clear"
    /\ sessions' = clearSession(sessions, Chat)
    /\ Goto(h, "done", loc[h])
    /\ StoreIdle /\ Same /\ UNCHANGED hist

\* The handler tells the chat the result and ends.
PubDone(h) ==
    /\ pc[h] = "done"
    /\ Goto(h, "idle", IdleLoc)
    /\ StoreIdle /\ Same /\ UNCHANGED <<sessions, hist>>

\* Callback tgl:<id>:<platform> or ps:toggle:<id>:<platform>: ToggleTarget up
\* to its SELECT EXISTS.
TglExists(h) ==
    \E kind \in {"tgl", "ps_toggle"}, postID \in PostIds, name \in PlatformNames :
        /\ Accept(h)
        /\ IF ~validPlatform(ToLower(name))
           THEN UNCHANGED <<pc, loc>>
           ELSE Goto(h, "t_write",
                     [kind |-> kind, post |-> postID, platform |-> ToLower(name),
                      exists |-> TargetExists(targets, postID, ToLower(name))])
        /\ StoreIdle /\ UNCHANGED <<sessions, cfg, remote, last, hist>>

\* ToggleTarget: the DELETE or the INSERT; the keyboard is then redrawn.
TglWrite(h) ==
    /\ pc[h] = "t_write"
    /\ LET l == loc[h]
           r == IF ctxDone[h]
                THEN [err |-> "context deadline exceeded", targets |-> targets]
                ELSE IF l.exists
                THEN [err |-> "", targets |-> DeleteTarget(targets, l.post, l.platform)]
                ELSE InsertTarget(targets, posts, l.post, l.platform)
       IN  /\ targets' = r.targets
           /\ IF r.err = ""
              THEN GotoMarking(h, "idle", IdleLoc, l.post, l.platform) /\ UNCHANGED last
              ELSE /\ Goto(h, "idle", IdleLoc)
                   /\ last' = [NoCall EXCEPT !.op = "ToggleTarget", !.post = l.post,
                                             !.err = r.err, !.arg = l.platform]
    /\ UNCHANGED <<posts, nextPostId, schema, media, logs, sessions, hist, cfg, remote, ctxDone, handled>>

\* Callback can:<id> or ps:cancel:<id>: b.repo.SetPostStatus(ctx, id, "canceled").
CancelStatus(h) ==
    \E kind \in {"can", "ps_cancel"}, postID \in PostIds :
        /\ Accept(h)
        /\ posts' = SetPostStatus(posts, postID, "canceled")
        /\ GotoMarking(h, IF kind = "can" THEN "idle" ELSE "x_clear",
                       IF kind = "can" THEN IdleLoc ELSE [kind |-> kind, post |-> postID],
                       postID, "canceled")
        /\ UNCHANGED <<nextPostId, schema, targets, media, logs, sessions, cfg, remote, last, hist>>

\* ps:cancel: b.clearSession(q.Message.Chat.ID)
CancelClear(h) ==
    /\ pc[h] = "x_clear"
    /\ sessions' = clearSession(sessions, Chat)
    /\ Goto(h, "idle", IdleLoc)
    /\ StoreIdle /\ Same /\ UNCHANGED hist

Next ==
    \E h \in Handlers :
        \/ PubQueue(h)
        \/ PubList(h)
        \/ PubGet(h)
        \/ PubMedia(h)
        \/ PubFetch(h)
        \/ PubCall(h)
        \/ PubWrite(h)
        \/ PubLog(h)
        \/ ConfirmClear(h)
        \/ PubDone(h)
        \/ TglExists(h)
        \/ TglWrite(h)
        \/ CancelStatus(h)
        \/ CancelClear(h)

Spec == Init /\ [][Next]_vars

-----------------------------------------------------------------------------
(* The store deadline.  Every callback handler works under the context of   *)
(* dbCtx, which expires 3 seconds after the handler began; from then on     *)
(* every store operation and every request made with the context fails.     *)

\* context.WithTimeout(context.Background(), 3*time.Second): the deadline of
\* a running handler passes.
Deadline(h) ==
    /\ pc[h] # "idle"
    /\ ~ctxDone[h]
    /\ ctxDone' = [ctxDone EXCEPT ![h] = TRUE]
    /\ UNCHANGED <<posts, nextPostId, schema, targets, media, logs, sessions, cfg, remote, pc, loc,
                   handled, last, hist>>

\* A photo message turned into a draft, every platform configured.
InitFault ==
    /\ posts = CreatePost(NoPosts, 1,
                          [EmptyDraft EXCEPT !.Type = "photo", !.PhotoFileID = Some(FileId)]).posts
    /\ media = NoMedia
    /\ sessions = [c \in {Chat} |-> Nil]
    /\ cfg = Config(AllValues, {})
    /\ remote = Reliable
    /\ nextPostId = 2 /\ schema = Migrated
    /\ targets = NoTargets
    /\ logs = EmptyBag
    /\ pc = [h \in Handlers |-> "idle"]
    /\ loc = [h \in Handlers |-> IdleLoc]
    /\ ctxDone = [h \in Handlers |-> FALSE]
    /\ handled = 0
    /\ last = NoCall
    /\ hist = NoHist

NextFault ==
    \/ Next
    \/ \E h \in Handlers : Deadline(h)

SpecFault == InitFault /\ [][NextFault]_vars

-----------------------------------------------------------------------------
(* One publish at a time, over the store contents, configurations and       *)
(* answers that a dispatch can meet.                                        *)

Pending == <<[status |-> "pending", external_post_id |-> Nil, error |-> Nil]>>

Item(file, type, position) == [file |-> file, type |-> type, position |-> position]

\* Rows of posts and post_media: a text, a photo message, and posts with a
\* legacy photo or without that hold videos only, a photo, a video and a
\* photo, two photos, five photos.
DispatchDrafts ==
    LET text == [EmptyDraft EXCEPT !.TextContent = <<"a">>]
        photo == [EmptyDraft EXCEPT !.Type = "photo", !.PhotoFileID = Some("legacy")]
    IN  {[post |-> text, media |-> <<>>],
         [post |-> photo, media |-> <<>>],
         [post |-> photo, media |-> <<Item("v1", "video", 0)>>],
         [post |-> photo, media |-> <<Item("m1", "photo", 0)>>],
         [post |-> text, media |-> <<Item("v1", "video", 0), Item("m2", "photo", 1)>>],
         [post |-> text, media |-> <<Item("m1", "photo", 0), Item("m2", "photo", 1)>>],
         [post |-> text, media |-> [i \in 1..5 |-> Item("m" \o ToString(i), "photo", i - 1)]]}

\* Every value present, or every value but one.
DispatchConfigs == {Config(AllValues, {})} \cup {Config(AllValues \ {v}, {}) : v \in AllValues}

\* One platform selected, or all of the connectors.
DispatchSelections == {{p} : p \in ConnectorSet} \cup {ConnectorSet}

InitDispatch ==
    /\ \E d \in DispatchDrafts :
          /\ posts = CreatePost(NoPosts, 1, d.post).posts
          /\ media = [NoMedia EXCEPT ![1] = d.media]
    /\ \E sel \in DispatchSelections :
          targets = [k \in DOMAIN NoTargets |->
                        IF k[1] = 1 /\ k[2] \in sel THEN Pending ELSE <<>>]
    /\ cfg \in DispatchConfigs
    /\ remote = [answers |-> Answers, headers |-> Headers]
    /\ sessions = [c \in {Chat} |-> Nil]
    /\ nextPostId = 2 /\ schema = Migrated
    /\ logs = EmptyBag
    /\ pc = [h \in Handlers |-> "idle"]
    /\ loc = [h \in Handlers |-> IdleLoc]
    /\ ctxDone = [h \in Handlers |-> FALSE]
    /\ handled = MaxUpdates - 1
    /\ last = NoCall
    /\ hist = NoHist

NextDispatch ==
    \E h \in {1} :
        \/ PubQueue(h)
        \/ PubList(h)
        \/ PubGet(h)
        \/ PubMedia(h)
        \/ PubFetch(h)
        \/ PubCall(h)
        \/ PubWrite(h)
        \/ PubLog(h)
        \/ ConfirmClear(h)
        \/ PubDone(h)

SpecDispatch == InitDispatch /\ [][NextDispatch]_vars

-----------------------------------------------------------------------------
(* Properties of the publish invocation, under Spec *)

\* The handlers that are inside a publish request.
Publishing == {h \in Handlers : loc[h].kind \in PubKinds}

\* The handlers whose publishSelected has returned.
Returned == {h \in Publishing : pc[h] \in {"cf_clear", "done"}}

Index(p) == CHOOSE i \in DOMAIN Connectors : Connectors[i] = p

\* The selected platforms after p in the order of publishSelected.
LaterSelected(l, p) ==
    {q \in ConnectorSet : Index(q) > Index(p) /\ l.sel[q]}

\* The post of the invocation has no photo for pinterest or instagram.
NoPhoto(l) ==
    /\ PostExists(posts, l.post)
    /\ WantedFiles("pinterest", ListMedia(media, l.post), posts[l.post].PhotoFileID) = <<>>

HasLog(postID, p, event, detail) ==
    BagIn([post |-> postID, platform |-> Some(p), event |-> event, detail |-> detail], logs)

\* C1: within one publish invocation, once the attempt for a selected
\* platform has failed, no selected platform later in the order twitter,
\* pinterest, facebook, instagram is attempted: no media fetch, no connector
\* call, no target-status write and no log entry is made for it, its target
\* row is what it was when the invocation began unless another handler wrote
\* it, and the invocation returns the error of the failed attempt.
C1_EarlyAbort ==
    \A h \in Publishing :
        LET l == loc[h] IN
        \A p \in l.logged :
            l.outs[p].status = "failed" =>
                /\ \A q \in LaterSelected(l, p) :
                      /\ q \notin l.att \cup l.fetched \cup l.called \cup l.wrote \cup l.logged
                      /\ q \notin l.dirty => targets[l.post, q] = l.rows0[q]
                /\ h \in Returned => l.res = l.outs[p].error[1]

C1_Witness ==
    \E h \in Returned :
        LET l == loc[h] IN
        /\ "twitter" \in l.logged
        /\ l.outs["twitter"].status = "failed"
        /\ \E q \in LaterSelected(l, "twitter") :
              /\ q \notin l.dirty
              /\ targets[l.post, q] = <<[status |-> "pending", external_post_id |-> Nil,
                                         error |-> Nil]>>

\* C2: when a selected, configured platform's connector call succeeds with
\* id X, then from the end of that attempt on, and unless another handler
\* wrote the same target, the target row of (post, platform) has status
\* published, external id X and a null error; a log entry with event
\* published exists for the post and platform; and unless the post was
\* canceled meanwhile the post status is queued.
C2_PublishedOutcome ==
    \A h \in Publishing :
        LET l == loc[h] IN
        \A p \in l.logged :
            l.outs[p].status = "published" =>
                LET x == l.outs[p].ext IN
                /\ Configured(cfg, p) /\ l.sel[p] /\ p \in l.called /\ x # Nil
                /\ p \notin l.dirty =>
                      targets[l.post, p] = <<[status |-> "published",
                                              external_post_id |-> x, error |-> Nil]>>
                /\ HasLog(l.post, p, "published", IdPrefix(p) \o x[1])
                /\ ~l.canceled => posts[l.post].Status = "queued"

C2_Witness ==
    \E h \in Returned :
        LET l == loc[h] IN
        /\ l.res = ""
        /\ l.logged = {"twitter", "instagram"}
        /\ \A p \in l.logged :
              /\ l.rows0[p] # <<>>
              /\ targets[l.post, p] = <<[status |-> "published",
                                         external_post_id |-> Some(ExtId(l.inv, p)),
                                         error |-> Nil]>>
        /\ posts[l.post].Status = "queued"

\* What C3 says of an attempt for pinterest or instagram on a post without
\* a photo, for the configurations in cfgs.
ImageRequired(cfgs) ==
    \A h \in Publishing :
        LET l == loc[h] IN
        \A p \in l.logged \cap {"pinterest", "instagram"} :
            (NoPhoto(l) /\ {q \in ConnectorSet : Configured(cfg, q)} \in cfgs) =>
                /\ l.outs[p] = Failed(ImageMsg(p), "")
                /\ p \notin l.called /\ p \notin l.fetched
                /\ p \notin l.dirty =>
                      targets[l.post, p] = <<[status |-> "failed", external_post_id |-> Nil,
                                              error |-> Some(ImageMsg(p))]>>
                /\ HasLog(l.post, p, "error", ImageMsg(p))
                /\ h \in Returned => l.res = ImageMsg(p)

\* C3 (as stated): when pinterest or instagram is selected and the post has
\* no photo, the attempt for that platform sets the target to failed with an
\* error text saying an image is required, logs an error, makes no remote
\* call, and the invocation reports failure -- whatever the configuration.
C3_ImageRequired_AsStated == ImageRequired(SUBSET ConnectorSet)

\* C3: when pinterest or instagram is selected, its configuration is present
\* and the post has no photo, the attempt for that platform sets the target
\* to failed with an error text saying an image is required, logs an error
\* for the platform, makes no remote call, and the invocation reports that
\* failure.
C3_ImageRequired == ImageRequired({c \in SUBSET ConnectorSet : {"pinterest", "instagram"} \subseteq c})

C3_Witness ==
    \E h \in Returned :
        LET l == loc[h] IN
        /\ NoPhoto(l) /\ Configured(cfg, "instagram")
        /\ "instagram" \in l.logged
        /\ l.res = ImageMsg("instagram")
        /\ targets[l.post, "instagram"] =
              <<[status |-> "failed", external_post_id |-> Nil,
                 error |-> Some(ImageMsg("instagram"))]>>

\* C4: a publish request sets the post status to queued as its first step,
\* before any target is attempted, and no later step of a handler writes the
\* post status: unless a cancel request arrived meanwhile, the post status
\* is queued throughout the invocation and when it ends, whether its targets
\* succeeded, failed or were never attempted.
C4_QueuedFirst ==
    /\ [](\A h \in Publishing :
            (PostExists(posts, loc[h].post) /\ ~loc[h].canceled) =>
                posts[loc[h].post].Status = "queued")
    /\ [][posts' # posts => \E h \in Handlers : pc[h] = "idle" /\ handled' = handled + 1]_vars

C4_Witness ==
    /\ \E h \in Returned :
          /\ loc[h].res # "" /\ loc[h].logged # {} /\ ~loc[h].canceled
          /\ LaterSelected(loc[h], "twitter") \ loc[h].att # {}
          /\ posts[loc[h].post].Status = "queued"

-----------------------------------------------------------------------------
(* Properties of post_targets and posts.status, under Spec *)

\* C13: in every reachable state there is at most one target row per
\* (post, platform), however the ToggleTarget and SetTargetStatus calls of
\* concurrent handlers interleave.
C13_OneRowPerTarget == \A k \in DOMAIN targets : Len(targets[k]) <= 1

\* A toggle found no row, another handler then created the row, and the
\* toggle's INSERT was refused: the row is there once.
C13_Witness ==
    /\ last.op = "ToggleTarget"
    /\ last.err # ""
    /\ PostExists(posts, last.post)
    /\ Len(targets[last.post, last.arg]) = 1

\* The moves of posts.status along draft -> queued -> published | canceled
\* (a draft may also be canceled).
PostStatusMove(a, b) ==
    \/ a = b
    \/ a = "draft" /\ b \in {"queued", "canceled"}
    \/ a = "queued" /\ b \in {"published", "canceled"}

\* C14: the status of a post only moves along draft -> queued -> published
\* | canceled: a post whose status is canceled (or published) never changes
\* status again, whatever publish, confirm or cancel callbacks arrive.
C14_PostStatusMonotone ==
    [][\A i \in DOMAIN posts : PostStatusMove(posts[i].Status, posts'[i].Status)]_vars

\* The status of the target row of key k ("none" without a row).
TargetStatus(tg, k) == IF tg[k] = <<>> THEN "none" ELSE tg[k][1].status

\* C15: the status of a target only moves along pending -> publishing ->
\* published | failed: a row becomes published or failed only from
\* publishing, and a row that is published or failed is never changed by a
\* later operation.
C15_TargetStatusMonotone ==
    [][\A k \in DOMAIN targets :
          LET a == TargetStatus(targets, k)
              b == TargetStatus(targets', k)
          IN  /\ (b \in {"published", "failed"} /\ targets'[k] # targets[k]) => a = "publishing"
              /\ a \in {"published", "failed"} => targets'[k] = targets[k]]_vars

\* C16: in every reachable state and for every target row, the error is
\* non-null exactly when the status is failed and the external id is
\* non-null exactly when the status is published: the outcome of a later
\* attempt replaces the external id and the error of an earlier one.
C16_ErrorAndExternalId ==
    \A k \in DOMAIN targets :
        \A i \in DOMAIN targets[k] :
            /\ (targets[k][i].error # Nil) = (targets[k][i].status = "failed")
            /\ (targets[k][i].external_post_id # Nil) = (targets[k][i].status = "published")

\* A target that was published when a publish invocation began is failed
\* after it, with an error and without the earlier external id.
C16_Witness ==
    \E h \in Publishing :
        \E p \in loc[h].wrote :
            /\ loc[h].rows0[p] # <<>>
            /\ loc[h].rows0[p][1].status = "published"
            /\ targets[loc[h].post, p] =
                  <<[status |-> "failed", external_post_id |-> Nil,
                     error |-> Some("remote error")]>>

-----------------------------------------------------------------------------
(* Properties of the result and the order of publishSelected, under Spec *)

\* The platforms attempted before p in an invocation.
AttemptedBefore(l, p) == {q \in l.att : Index(q) < Index(p)}

\* C17: publishSelected on an existing post reports success exactly when
\* every target it attempted succeeded, and otherwise the error of the first
\* failed attempt; with no platform selected it reports success without
\* attempting a platform or calling a connector.
C17_AggregateResult ==
    \A h \in Returned :
        LET l == loc[h] IN
        l.snap # Nil =>
            /\ (l.res = "") = (\A p \in l.att : l.outs[p].status = "published")
            /\ l.res # "" =>
                  \E p \in l.att :
                      /\ l.outs[p].status = "failed"
                      /\ l.res = l.outs[p].error[1]
                      /\ \A q \in AttemptedBefore(l, p) : l.outs[q].status = "published"
            /\ (\A p \in ConnectorSet : ~l.sel[p]) =>
                  l.res = "" /\ l.att = {} /\ l.called = {}

\* An invocation whose first attempt succeeded and whose second failed has
\* reported the second's error.
C17_Witness ==
    \E h \in Returned :
        LET l == loc[h] IN
        /\ l.att = {"twitter", "facebook"}
        /\ l.outs["twitter"].status = "published"
        /\ l.outs["facebook"].status = "failed"
        /\ l.res = "remote error"

\* C18: when a publish invocation reports success, every platform that
\* ListTargets returned as selected -- any of the five of storage.Platforms
\* -- had its connector invoked and its target status is published: no
\* selected target is left pending.
C18_SuccessCoversSelected ==
    \A h \in Returned :
        LET l == loc[h] IN
        (l.snap # Nil /\ l.res = "") =>
            \A p \in PlatformSet :
                l.sel[p] =>
                    /\ p \in l.called
                    /\ p \notin l.dirty => TargetStatus(targets, <<l.post, p>>) = "published"

\* The selected platforms before p in the order of publishSelected.
EarlierSelected(l, p) == {q \in ConnectorSet : Index(q) < Index(p) /\ l.sel[q]}

\* C19: within one publish invocation the selected platforms are attempted
\* one at a time in the order twitter, pinterest, facebook, instagram: when
\* the attempt for a platform has started, every selected platform before it
\* has been attempted and has had its target status written and its log
\* entry added, and at most one platform of the invocation has been fetched
\* for or called without its status being written yet.
C19_OneAtATime ==
    \A h \in Publishing :
        LET l == loc[h] IN
        /\ \A p \in l.att : EarlierSelected(l, p) \subseteq (l.att \cap l.wrote \cap l.logged)
        /\ \A p \in l.att : l.sel[p]
        /\ Cardinality(l.att \ l.wrote) <= 1
        /\ (l.fetched \cup l.called) \ l.wrote \subseteq l.att \ l.wrote
        /\ pc[h] = "p_call" => l.att \ l.wrote = {Connectors[l.idx]}

\* The connector of the second selected platform has been called, after the
\* outcome of the first was written and logged.
C19_Witness ==
    \E h \in Publishing :
        /\ pc[h] = "p_write"
        /\ Connectors[loc[h].idx] = "instagram"
        /\ loc[h].called = {"twitter", "instagram"}
        /\ loc[h].wrote = {"twitter"}
        /\ loc[h].logged = {"twitter"}

\* The target row an outcome is written as.
RowOf(o) == [status |-> o.status, external_post_id |-> o.ext, error |-> o.error]

\* The platforms of an invocation whose target was published when it began.
AlreadyPublished(l) ==
    {p \in ConnectorSet : l.rows0[p] # <<>> /\ l.rows0[p][1].status = "published"}

\* C20: a publish invocation that reaches a still-selected platform whose
\* target is already published attempts it like any other: the connector is
\* called again unless the media fetch failed, a successful call returns an
\* id of its own, and the outcome of this attempt replaces the status, the
\* external id and the error of the row (unless another handler wrote the
\* row since).
C20_SecondPublishRepeats ==
    \A h \in Publishing :
        LET l == loc[h] IN
        \A p \in l.logged \cap AlreadyPublished(l) :
            /\ l.sel[p] =>
                  /\ p \notin l.called => l.outs[p] = Failed(FetchErr(p), FetchPrefix(p))
                  /\ l.outs[p].status = "published" =>
                        p \in l.called /\ l.outs[p].ext = Some(ExtId(l.inv, p))
            /\ p \notin l.dirty => targets[l.post, p] = <<RowOf(l.outs[p])>>

\* A second invocation published a target again: the row holds the id of the
\* second call in place of the id of the first.
C20_Witness ==
    \E h \in Returned :
        LET l == loc[h] IN
        \E p \in l.called \cap AlreadyPublished(l) :
            /\ l.rows0[p][1].external_post_id # Some(ExtId(l.inv, p))
            /\ targets[l.post, p] =
                  <<[status |-> "published", external_post_id |-> Some(ExtId(l.inv, p)),
                     error |-> Nil]>>

-----------------------------------------------------------------------------
(* Properties of a publish under the store deadline, under SpecFault        *)

\* C21: a publish invocation never reports success for a target whose
\* published status was not written to the store: when publishSelected has
\* returned without error, every platform whose connector call succeeded
\* has had its SetTargetStatus succeed.
C21_StoreFailureReported ==
    \A h \in Returned :
        loc[h].res = "" =>
            \A p \in ConnectorSet :
                loc[h].outs[p].status = "published" => p \in loc[h].stored

-----------------------------------------------------------------------------
(* The way of an update into its handler: handleUpdate, applyMiddleware,    *)
(* isAuthorized, and the handlers behind them.                              *)

Users == {1, 2}

SenderKinds == {"message", "callback", "inline"}

\* The updates: a text message, the callbacks tgl:1:twitter, pub:1 and
\* ps:cancel:1, an inline query, each from a user, and an update of another
\* type (a channel post, an edited message), which names no sender.
Updates ==
    {[kind |-> "message", from |-> u, data |-> "text"] : u \in Users}
    \cup {[kind |-> "callback", from |-> u, data |-> d] :
              u \in Users, d \in {"tgl", "pub", "ps_cancel"}}
    \cup {[kind |-> "inline", from |-> u, data |-> ""] : u \in Users}
    \cup {[kind |-> "other", from |-> 0, data |-> ""]}

\* An isAuthorized that lets through the updates without a sender.
isAuthorizedUnknownSender(c, update) ==
    IF c.AllowedUsers = {} THEN TRUE
    ELSE IF update.kind \notin SenderKinds THEN TRUE
    ELSE \E id \in c.AllowedUsers : id = update.from

\* isAuthorized: with no AllowedUsers everyone is allowed; else the sender of
\* a message, callback or inline query must be in the list.
isAuthorized(c, update) ==
    IF c.AllowedUsers = {} THEN TRUE
    ELSE IF update.kind \notin SenderKinds THEN FALSE
    ELSE \E id \in c.AllowedUsers : id = update.from

applyMiddleware(c, update) == isAuthorized(c, update)

\* go b.handleUpdate(update), up to the return or the choice of a handler.
UpdArrive(h) ==
    /\ pc[h] = "idle"
    /\ handled < MaxUpdates
    /\ handled' = handled + 1
    /\ ctxDone' = [ctxDone EXCEPT ![h] = FALSE]
    /\ \E u \in Updates :
          /\ last' = [NoCall EXCEPT !.op = "handleUpdate", !.arg = u.kind,
                                    !.before = u.from, !.ret = applyMiddleware(cfg, u)]
          /\ IF applyMiddleware(cfg, u)
             THEN Goto(h, "dispatch", [kind |-> "update", update |-> u, n |-> handled + 1])
             ELSE UNCHANGED <<pc, loc>>
    /\ StoreIdle /\ UNCHANGED <<sessions, cfg, remote, hist>>

\* handleMessage for a text, up to its store call: b.getSession decides
\* between the compose branch, for the post of the session, and a new draft.
UpdMessage(h) ==
    /\ pc[h] = "dispatch"
    /\ loc[h].update.kind = "message"
    /\ LET s == getSession(sessions, Chat) IN
       IF s # Nil
       THEN Goto(h, "u_append", [kind |-> "append", post |-> s[1].PostID])
       ELSE Goto(h, "u_create", loc[h])
    /\ StoreIdle /\ Same /\ UNCHANGED <<sessions, hist>>

\* handleMessage, the compose branch: AppendPostText for the post of the
\* session that was read.
UpdAppend(h) ==
    /\ pc[h] = "u_append"
    /\ posts' = AppendPostText(posts, loc[h].post, <<"a">>)
    /\ Goto(h, "idle", IdleLoc)
    /\ UNCHANGED <<nextPostId, schema, targets, media, logs, sessions, hist>> /\ Same

\* handleMessage without a session: CreatePost of a text draft.
UpdCreate(h) ==
    /\ pc[h] = "u_create"
    /\ nextPostId <= MaxPosts
    /\ posts' = CreatePost(posts, nextPostId,
                           [EmptyDraft EXCEPT !.TextContent = <<"a">>]).posts
    /\ nextPostId' = nextPostId + 1 /\ UNCHANGED schema
    /\ Goto(h, "idle", IdleLoc)
    /\ UNCHANGED <<targets, media, logs, sessions, hist>> /\ Same

\* handleCallbackQuery and handlePostSetupCallback up to their first store
\* call: the SELECT of ToggleTarget, or SetPostStatus.
UpdCallback(h) ==
    /\ pc[h] = "dispatch"
    /\ loc[h].update.kind = "callback"
    /\ LET d == loc[h].update.data IN
       IF d = "tgl"
       THEN /\ Goto(h, "t_write", [kind |-> "tgl", post |-> 1, platform |-> "twitter",
                                   exists |-> TargetExists(targets, 1, "twitter")])
            /\ UNCHANGED posts
       ELSE IF d = "pub"
       THEN /\ posts' = SetPostStatus(posts, 1, "queued")
            /\ Goto(h, "p_list", PubLoc("pub", loc[h].n, 1,
                                        [p \in ConnectorSet |-> targets[1, p]]))
       ELSE /\ posts' = SetPostStatus(posts, 1, "canceled")
            /\ GotoMarking(h, "x_clear", [kind |-> "ps_cancel", post |-> 1], 1, "canceled")
    /\ UNCHANGED <<nextPostId, schema, targets, media, logs, sessions, hist>> /\ Same

\* handleInlineQuery, which answers without the store, and the update types
\* handleUpdate has no handler for.
UpdOther(h) ==
    /\ pc[h] = "dispatch"
    /\ loc[h].update.kind \in {"inline", "other"}
    /\ Goto(h, "idle", IdleLoc)
    /\ StoreIdle /\ Same /\ UNCHANGED <<sessions, hist>>

\* A text draft in a /post session with twitter selected; AllowedUsers
\* empty or holding the first user.
InitAuth ==
    /\ posts = CreatePost(NoPosts, 1, [EmptyDraft EXCEPT !.TextContent = <<"a">>]).posts
    /\ media = NoMedia
    /\ targets = [k \in DOMAIN NoTargets |-> IF k = <<1, "twitter">> THEN Pending ELSE <<>>]
    /\ sessions = setSession([c \in {Chat} |-> Nil], Chat, [PostID |-> 1, Step |-> "compose"])
    /\ cfg \in {Config(AllValues, {}), Config(AllValues, {1})}
    /\ remote = Reliable
    /\ nextPostId = 2 /\ schema = Migrated
    /\ logs = EmptyBag
    /\ pc = [h \in Handlers |-> "idle"]
    /\ loc = [h \in Handlers |-> IdleLoc]
    /\ ctxDone = [h \in Handlers |-> FALSE]
    /\ handled = 0
    /\ last = NoCall
    /\ hist = NoHist

NextAuth ==
    \E h \in Handlers :
        \/ UpdArrive(h)
        \/ UpdMessage(h)
        \/ UpdAppend(h)
        \/ UpdCreate(h)
        \/ UpdCallback(h)
        \/ UpdOther(h)
        \/ TglWrite(h)
        \/ CancelClear(h)
        \/ PubList(h)
        \/ PubGet(h)
        \/ PubMedia(h)
        \/ PubCall(h)
        \/ PubWrite(h)
        \/ PubLog(h)
        \/ PubDone(h)

SpecAuth == InitAuth /\ [][NextAuth]_vars

-----------------------------------------------------------------------------
(* SpecSession: the messages, /post commands and ps: callbacks of one chat *)

\* A chat in the /post session of draft 1, with nothing or twitter selected,
\* and a bot that holds no credentials of any platform.
InitSession ==
    /\ posts = CreatePost(NoPosts, 1, EmptyDraft).posts
    /\ nextPostId = 2 /\ schema = Migrated
    /\ media = NoMedia
    /\ targets \in {NoTargets,
                    [k \in DOMAIN NoTargets |-> IF k = <<1, "twitter">> THEN Pending ELSE <<>>]}
    /\ logs = EmptyBag
    /\ sessions = setSession([c \in {Chat} |-> Nil], Chat, [PostID |-> 1, Step |-> "compose"])
    /\ cfg = Config({}, {})
    /\ remote = Reliable
    /\ pc = [h \in Handlers |-> "idle"]
    /\ loc = [h \in Handlers |-> IdleLoc]
    /\ ctxDone = [h \in Handlers |-> FALSE]
    /\ handled = 0
    /\ last = NoCall
    /\ hist = NoHist

\* handleMessage, a message that is no command, in a chat without a session:
\* b.getSession, then the type and the text of the draft, or the reply that
\* the content is not supported.
MsgNoSession(h) ==
    \E m \in Messages :
        /\ pc[h] = "idle"
        /\ handled < MaxMsgs
        /\ getSession(sessions, Chat) = Nil
        /\ handled' = handled + 1
        /\ IF m.photo
           THEN Goto(h, "m_draft", [kind |-> "draft", msg |-> m,
                                    draft |-> [EmptyDraft EXCEPT !.Type = "photo",
                                                                 !.TextContent = m.caption,
                                                                 !.PhotoFileID = Some(FileId)]])
           ELSE IF m.text # <<>>
           THEN Goto(h, "m_draft", [kind |-> "draft", msg |-> m,
                                    draft |-> [EmptyDraft EXCEPT !.TextContent = m.text]])
           ELSE UNCHANGED <<pc, loc>>
        /\ StoreIdle /\ Quiet /\ UNCHANGED sessions

\* handleMessage without a session: CreatePost, then the keyboard of the draft.
MsgDraft(h) ==
    /\ pc[h] = "m_draft"
    /\ nextPostId <= MaxPosts
    /\ posts' = CreatePost(posts, nextPostId, loc[h].draft).posts
    /\ nextPostId' = nextPostId + 1 /\ UNCHANGED schema
    /\ Goto(h, "idle", IdleLoc)
    /\ UNCHANGED <<targets, media, logs, sessions, handled>> /\ Quiet

\* handlePostCommand sends the Cancel button of a post after it has created
\* the post and set the session; the Confirm button follows later.
ButtonsSent(postID) ==
    /\ PostExists(posts, postID)
    /\ \A g \in Handlers : ~(pc[g] = "c_session" /\ loc[g].post = postID)

\* go b.handleUpdate(update) for a message of the session, a /post command,
\* a ps:confirm or a ps:cancel callback of a post whose buttons were sent.
NextSession ==
    \E h \in Handlers :
        \/ MsgStart(h)
        \/ MsgCount(h)
        \/ MsgNextPos(h)
        \/ MsgInsert(h)
        \/ MsgCaption(h)
        \/ MsgText(h)
        \/ MsgEnd(h)
        \/ MsgNoSession(h)
        \/ MsgDraft(h)
        \/ PostCmdCreate(h)
        \/ PostCmdSession(h)
        \/ (PubQueue(h) /\ loc'[h].kind = "confirm" /\ ButtonsSent(loc'[h].post))
        \/ PubList(h)
        \/ PubGet(h)
        \/ PubMedia(h)
        \/ PubWrite(h)
        \/ PubLog(h)
        \/ ConfirmClear(h)
        \/ PubDone(h)
        \/ (CancelStatus(h) /\ pc'[h] = "x_clear" /\ ButtonsSent(loc'[h].post))
        \/ CancelClear(h)

SpecSession == InitSession /\ [][NextSession]_vars

-----------------------------------------------------------------------------
(* SpecLoad: config.Load reads ALLOWED_USERS, then updates arrive *)

MaxEnvLen == 4

\* The bytes an ALLOWED_USERS value is made of here; a value is a sequence
\* of them.
EnvChars == {"0", "1", "2", "-", " ", ","}

EnvValues == UNION {[1..n -> EnvChars] : n \in 0..MaxEnvLen}

\* c >= '0' && c <= '9', and int64(c - '0').
IsDigit(c) == c \in {"0", "1", "2"}

DigitValue(c) == CASE c = "0" -> 0 [] c = "1" -> 1 [] c = "2" -> 2

\* Load, the end of a number: the sign is applied and a number that is not
\* zero is appended to ids.
FlushNumber(st) ==
    LET cur == IF st.neg THEN 0 - st.cur ELSE st.cur IN
    [st EXCEPT !.cur = 0, !.neg = FALSE,
               !.ids = IF cur # 0 THEN Append(@, cur) ELSE @]

\* Load, the switch on one byte of the value.
ParseByte(st, c) ==
    IF IsDigit(c) THEN [st EXCEPT !.cur = @ * 10 + DigitValue(c)]
    ELSE IF c = "-" THEN [st EXCEPT !.neg = IF st.cur = 0 THEN TRUE ELSE @]
    ELSE FlushNumber(st)

LoadLoc(allowed) ==
    [kind |-> "load", allowed |-> allowed, i |-> 1, cur |-> 0, neg |-> FALSE, ids |-> <<>>]

LoadStep(p, l) ==
    /\ pc' = [pc EXCEPT ![1] = p]
    /\ loc' = [loc EXCEPT ![1] = l]
    /\ StoreIdle /\ UNCHANGED <<sessions, remote, ctxDone, handled, last, hist>>

\* Load: os.Getenv("ALLOWED_USERS"), and the test for the empty string.
LoadGetenv ==
    /\ pc[1] = "l_getenv"
    /\ LoadStep(IF loc[1].allowed # <<>> THEN "l_loop" ELSE "loaded", loc[1])
    /\ UNCHANGED cfg

\* Load: one turn of the loop over the bytes.
LoadByte ==
    /\ pc[1] = "l_loop"
    /\ loc[1].i <= Len(loc[1].allowed)
    /\ LoadStep("l_loop", [ParseByte(loc[1], loc[1].allowed[loc[1].i]) EXCEPT !.i = @ + 1])
    /\ UNCHANGED cfg

\* Load, after the loop: the last number, and config.AllowedUsers = ids.
LoadAssign ==
    /\ pc[1] = "l_loop"
    /\ loc[1].i > Len(loc[1].allowed)
    /\ LET st == FlushNumber(loc[1]) IN
       /\ LoadStep("loaded", st)
       /\ cfg' = [cfg EXCEPT !.AllowedUsers = {st.ids[k] : k \in DOMAIN st.ids}]

\* The bot runs with the loaded configuration: an update arrives.
LoadServe ==
    /\ pc[1] = "loaded"
    /\ UpdArrive(2)

InitLoad ==
    /\ posts = CreatePost(NoPosts, 1, [EmptyDraft EXCEPT !.TextContent = <<"a">>]).posts
    /\ media = NoMedia
    /\ targets = NoTargets
    /\ sessions = [c \in {Chat} |-> Nil]
    /\ cfg = Config(AllValues, {})
    /\ remote = Reliable
    /\ nextPostId = 2 /\ schema = Migrated
    /\ logs = EmptyBag
    /\ pc = [h \in Handlers |-> IF h = 1 THEN "l_getenv" ELSE "idle"]
    /\ \E allowed \in EnvValues :
           loc = [h \in Handlers |-> IF h = 1 THEN LoadLoc(allowed) ELSE IdleLoc]
    /\ ctxDone = [h \in Handlers |-> FALSE]
    /\ handled = 0
    /\ last = NoCall
    /\ hist = NoHist

NextLoad ==
    \/ LoadGetenv
    \/ LoadByte
    \/ LoadAssign
    \/ LoadServe

SpecLoad == InitLoad /\ [][NextLoad]_vars

-----------------------------------------------------------------------------
(* SpecMigrate: startups of the bot against one database *)

\* SELECT EXISTS(SELECT 1 FROM schema_migrations WHERE filename=$1).
MigrationExists(s, name) == name \in s.rows

\* A commit that leaves the filename out of schema_migrations.
CommitUnrecorded(s, name, tx) ==
    [s EXCEPT !.applied = IF tx.sql THEN Append(@, name) ELSE @]

\* tx.Commit: what the transaction executed takes effect at once.
Commit(s, name, tx) ==
    [s EXCEPT !.applied = IF tx.sql THEN Append(@, name) ELSE @,
              !.rows = IF tx.row THEN @ \cup {name} ELSE @]

MigLoc(idx) ==
    [kind |-> "migrate", idx |-> idx, tx |-> Nil, own |-> <<>>, err |-> ""]

MigStep(h, p, l) ==
    /\ pc' = [pc EXCEPT ![h] = p]
    /\ loc' = [loc EXCEPT ![h] = l]
    /\ UNCHANGED <<posts, nextPostId, targets, media, logs, sessions, cfg, remote,
                   ctxDone, last, hist>>

\* A return with an error: db.Connect closes the connection, an open
\* transaction is rolled back.
MigFail(h, l, err) == MigStep(h, "idle", [l EXCEPT !.tx = Nil, !.err = err])

\* The name the loop is at, or the end of the loop.
MigAdvance(h, l) ==
    IF l.idx < Len(MigrationNames)
    THEN MigStep(h, "m_check", [l EXCEPT !.idx = @ + 1, !.tx = Nil])
    ELSE MigStep(h, "idle", [l EXCEPT !.idx = @ + 1, !.tx = Nil])

\* migrate: CREATE TABLE IF NOT EXISTS schema_migrations.
MigCreate(h) ==
    /\ pc[h] = "idle"
    /\ handled < MaxStartups
    /\ handled' = handled + 1
    /\ \E ok \in BOOLEAN :
        IF ok
        THEN /\ schema' = [schema EXCEPT !.table = TRUE]
             /\ MigStep(h, "m_check", MigLoc(1))
        ELSE /\ UNCHANGED schema
             /\ MigFail(h, MigLoc(1), "create schema_migrations")

\* migrate, in the loop: the SELECT EXISTS of the name, and `continue`.
MigCheck(h) ==
    /\ pc[h] = "m_check"
    /\ UNCHANGED <<schema, handled>>
    /\ LET l == loc[h]  name == MigrationNames[l.idx] IN
       \E ok \in BOOLEAN :
           IF ~ok THEN MigFail(h, l, "check migration " \o name)
           ELSE IF MigrationExists(schema, name) THEN MigAdvance(h, l)
           ELSE MigStep(h, "m_begin", l)

\* migrate: db.BeginTx.
MigBegin(h) ==
    /\ pc[h] = "m_begin"
    /\ UNCHANGED <<schema, handled>>
    /\ LET l == loc[h]  name == MigrationNames[l.idx] IN
       \E ok \in BOOLEAN :
           IF ok THEN MigStep(h, "m_exec", [l EXCEPT !.tx = Some([sql |-> FALSE, row |-> FALSE])])
           ELSE MigFail(h, l, "begin tx for " \o name)

\* migrate: tx.ExecContext of the file's SQL.
MigExec(h) ==
    /\ pc[h] = "m_exec"
    /\ UNCHANGED <<schema, handled>>
    /\ LET l == loc[h]  name == MigrationNames[l.idx] IN
       \E ok \in BOOLEAN :
           IF ok THEN MigStep(h, "m_record", [l EXCEPT !.tx = Some([@[1] EXCEPT !.sql = TRUE])])
           ELSE MigFail(h, l, "exec migration " \o name)

\* migrate: INSERT INTO schema_migrations (filename).  filename is the
\* primary key: the insert waits for a transaction that holds a row of the
\* same name, and fails when such a row is committed.
MigRecord(h) ==
    /\ pc[h] = "m_record"
    /\ UNCHANGED <<schema, handled>>
    /\ LET l == loc[h]  name == MigrationNames[l.idx] IN
       /\ ~\E g \in Handlers \ {h} :
              /\ loc[g].kind = "migrate" /\ loc[g].tx # Nil
              /\ loc[g].idx = l.idx /\ loc[g].tx[1].row
       /\ \E ok \in BOOLEAN :
           IF ok /\ ~MigrationExists(schema, name)
           THEN MigStep(h, "m_commit", [l EXCEPT !.tx = Some([@[1] EXCEPT !.row = TRUE])])
           ELSE MigFail(h, l, "record migration " \o name)

\* migrate: tx.Commit, and the next name.
MigCommit(h) ==
    /\ pc[h] = "m_commit"
    /\ UNCHANGED handled
    /\ LET l == loc[h]  name == MigrationNames[l.idx] IN
       \E ok \in BOOLEAN :
           IF ok
           THEN /\ schema' = Commit(schema, name, l.tx[1])
                /\ MigAdvance(h, [l EXCEPT !.own = Append(@, name)])
           ELSE /\ UNCHANGED schema
                /\ MigFail(h, l, "commit migration " \o name)

\* A database without tables, before the first startup.
InitMigrate ==
    /\ schema = NoSchema
    /\ posts = NoPosts
    /\ nextPostId = 1
    /\ targets = NoTargets
    /\ media = NoMedia
    /\ logs = EmptyBag
    /\ sessions = [c \in {"chat"} |-> Nil]
    /\ cfg = Config({}, {})
    /\ remote = Reliable
    /\ pc = [h \in Handlers |-> "idle"]
    /\ loc = [h \in Handlers |-> IdleLoc]
    /\ ctxDone = [h \in Handlers |-> FALSE]
    /\ handled = 0
    /\ last = NoCall
    /\ hist = NoHist

NextMigrate ==
    \E h \in Handlers :
        \/ MigCreate(h)
        \/ MigCheck(h)
        \/ MigBegin(h)
        \/ MigExec(h)
        \/ MigRecord(h)
        \/ MigCommit(h)

SpecMigrate == InitMigrate /\ [][NextMigrate]_vars

-----------------------------------------------------------------------------
(* Properties of a /post session, under SpecSession                         *)

\* C38: text and media are added only to drafts: under any interleaving of
\* the message handlers and the callback handlers of the chat, no step
\* changes the text or the media of a post whose status is not draft.
C38_OnlyDraftsGrow ==
    [][\A i \in DOMAIN posts :
          posts[i].Status # "draft" =>
              posts'[i].TextContent = posts[i].TextContent /\ media'[i] = media[i]]_vars

\* C39: ps:confirm and ps:cancel of post P clear the session of the chat
\* only if it is the session of P: a session of another post stays.
C39_ClearsOwnSession ==
    [][\A h \in Handlers :
          (/\ pc[h] \in {"cf_clear", "x_clear"} /\ pc'[h] # pc[h]
           /\ getSession(sessions, Chat) # Nil
           /\ getSession(sessions, Chat)[1].PostID # loc[h].post) =>
              sessions' = sessions]_vars

-----------------------------------------------------------------------------
(* Properties of the configuration, under SpecLoad                          *)

\* The value cut at its commas.
RECURSIVE SplitCommas(_)
SplitCommas(v) ==
    IF \E i \in DOMAIN v : v[i] = ","
    THEN LET i == CHOOSE i \in DOMAIN v : v[i] = "," /\ \A j \in 1..(i - 1) : v[j] # ","
         IN <<SubSeq(v, 1, i - 1)>> \o SplitCommas(SubSeq(v, i + 1, Len(v)))
    ELSE <<v>>

\* An entry without the spaces around it.
RECURSIVE StripSpaces(_)
StripSpaces(e) ==
    IF e # <<>> /\ e[1] = " " THEN StripSpaces(Tail(e))
    ELSE IF e # <<>> /\ e[Len(e)] = " " THEN StripSpaces(SubSeq(e, 1, Len(e) - 1))
    ELSE e

Unsigned(e) == IF e # <<>> /\ e[1] = "-" THEN Tail(e) ELSE e

\* A decimal integer with an optional leading '-'.
IsDecimal(e) == Unsigned(e) # <<>> /\ \A i \in DOMAIN Unsigned(e) : IsDigit(Unsigned(e)[i])

RECURSIVE DigitsValue(_)
DigitsValue(d) ==
    IF d = <<>> THEN 0
    ELSE DigitsValue(SubSeq(d, 1, Len(d) - 1)) * 10 + DigitValue(d[Len(d)])

DecimalValue(e) ==
    IF e[1] = "-" THEN 0 - DigitsValue(Unsigned(e)) ELSE DigitsValue(Unsigned(e))

Entries(v) == [k \in DOMAIN SplitCommas(v) |-> StripSpaces(SplitCommas(v)[k])]

\* A comma-separated list of decimal integers, and the integers it lists.
IsIntegerList(v) == \A k \in DOMAIN Entries(v) : IsDecimal(Entries(v)[k])

ListedIds(v) == [k \in DOMAIN Entries(v) |-> DecimalValue(Entries(v)[k])]

\* C34: when ALLOWED_USERS is a comma-separated list of decimal integers,
\* each with an optional leading '-' and optional spaces around it, Load
\* sets AllowedUsers to that list in its order, and an update with a sender
\* passes exactly when the sender is one of the listed ids.
C34_AllowedUsersParsed ==
    LET v == loc[1].allowed IN
    (pc[1] = "loaded" /\ IsIntegerList(v)) =>
        /\ loc[1].ids = ListedIds(v)
        /\ cfg.AllowedUsers = {ListedIds(v)[k] : k \in DOMAIN ListedIds(v)}
        /\ (last.op = "handleUpdate" /\ last.arg \in SenderKinds) =>
               (last.ret <=> \E k \in DOMAIN ListedIds(v) : ListedIds(v)[k] = last.before)

-----------------------------------------------------------------------------
(* Properties of the migrations, under SpecMigrate                          *)

\* C33: over all startups, failed ones included, the migrations whose SQL is
\* committed are an initial part of the names in lexical order, each
\* committed once; a filename is in schema_migrations exactly when the SQL
\* of that migration is committed; and what one startup commits lies before
\* the name at which it stopped.
C33_MigrateOnce ==
    /\ Len(schema.applied) <= Len(MigrationNames)
    /\ schema.applied = SubSeq(MigrationNames, 1, Len(schema.applied))
    /\ schema.rows = {schema.applied[i] : i \in DOMAIN schema.applied}
    /\ \A h \in Handlers :
           loc[h].kind = "migrate" =>
               \A i \in DOMAIN loc[h].own :
                   \E j \in 1..(loc[h].idx - 1) :
                       /\ loc[h].own[i] = MigrationNames[j]
                       /\ i > 1 => loc[h].own[i - 1] = MigrationNames[j - 1]

\* A startup committed the first migration and failed at the second; a later
\* startup skipped the first and committed the second.
C33_Witness ==
    /\ schema = Migrated
    /\ pc = [h \in Handlers |-> "idle"]
    /\ loc[1].kind = "migrate" /\ loc[2].kind = "migrate"
    /\ loc[1].own = <<"0001_init.sql">>
    /\ loc[1].err = "exec migration 0002_post_media.sql"
    /\ loc[2].own = <<"0002_post_media.sql">>
    /\ loc[2].err = ""

-----------------------------------------------------------------------------
(* Properties of the authorization, under SpecAuth                          *)

\* What C27 says of who is let through: everyone when AllowedUsers is
\* empty, else a sender on the list.
Allowed(kind, from) ==
    \/ cfg.AllowedUsers = {}
    \/ kind \in SenderKinds /\ from \in cfg.AllowedUsers

\* C27: an update is handed to a handler exactly when AllowedUsers is empty
\* or it is a message, callback or inline query from a user on the list;
\* any other update is dropped: nothing in the store, no session and no
\* handler state changes with it; and the store and the sessions change
\* only in the steps of a handler that was let through.
C27_Authorization ==
    /\ [](\A h \in Handlers :
             pc[h] = "dispatch" => Allowed(loc[h].update.kind, loc[h].update.from))
    /\ [][(handled' # handled =>
              /\ last'.ret = Allowed(last'.arg, last'.before)
              /\ ~last'.ret => UNCHANGED <<posts, nextPostId, schema, targets, media, logs,
                                           sessions, pc, loc>>
              /\ last'.ret => \E h \in Handlers : pc[h] = "idle" /\ pc'[h] = "dispatch")
          /\ (\A h \in Handlers : (pc[h] = "idle" /\ pc'[h] # "idle") => pc'[h] = "dispatch")
          /\ (<<posts, nextPostId, targets, media, logs, sessions>>'
                  # <<posts, nextPostId, targets, media, logs, sessions>> =>
                 \E h \in Handlers : pc[h] # "idle" /\ pc'[h] # pc[h])]_vars

\* With user 1 alone on the list, a callback of user 2 was dropped after
\* user 1 had published the post.
C27_Witness ==
    /\ cfg.AllowedUsers = {1}
    /\ last.op = "handleUpdate" /\ last.arg = "callback" /\ last.before = 2 /\ ~last.ret
    /\ targets[1, "twitter"] # <<>> /\ targets[1, "twitter"][1].status = "published"
    /\ \A h \in Handlers : pc[h] = "idle"

-----------------------------------------------------------------------------
(* Properties of concurrent handlers, under Spec                            *)

\* C24: toggleTarget is atomic: every call on an existing post flips the
\* selection of its (post, platform), so two concurrent calls both succeed,
\* return opposite values and leave the selection as it was.
C24_ToggleAtomic ==
    [][\A h \in Handlers :
          (pc[h] = "t_write" /\ pc'[h] = "idle" /\ PostExists(posts, loc[h].post)) =>
              TargetExists(targets', loc[h].post, loc[h].platform)
                  # TargetExists(targets, loc[h].post, loc[h].platform)]_vars

\* The connectors selected in the ListTargets result of an invocation.
SelectedAtRead(l) == {p \in ConnectorSet : l.sel[p]}

\* C25: the platforms a publish invocation attempts are those of its one
\* ListTargets read: nothing is attempted before the read, only platforms
\* selected in the read are attempted, and an invocation that returns
\* success has attempted every connector selected in the read, whatever
\* was toggled meanwhile.
C25_SelectionFixedAtRead ==
    \A h \in Publishing :
        LET l == loc[h] IN
        /\ pc[h] = "p_list" => l.att = {} /\ l.sel = <<>>
        /\ l.sel = <<>> => l.att = {}
        /\ l.sel # <<>> => l.att \subseteq SelectedAtRead(l)
        /\ (h \in Returned /\ l.res = "" /\ l.sel # <<>>) => l.att = SelectedAtRead(l)

\* An invocation read twitter only, returned success having attempted
\* twitter only, and instagram was selected after the read.
C25_Witness ==
    \E h \in Returned :
        LET l == loc[h] IN
        /\ l.res = ""
        /\ SelectedAtRead(l) = {"twitter"}
        /\ l.att = {"twitter"}
        /\ l.rows0["instagram"] = <<>>
        /\ targets[l.post, "instagram"] =
              <<[status |-> "pending", external_post_id |-> Nil, error |-> Nil]>>

\* C26: two publish invocations for one post are not excluded from one
\* another, and the target row is the one written last: after its
\* SetTargetStatus, and until another handler writes the same target, the
\* row holds the outcome of this invocation.
C26_LastWriteWins ==
    \A h \in Publishing :
        LET l == loc[h] IN
        \A p \in l.stored :
            p \notin l.dirty =>
                targets[l.post, p] = <<RowOf(IF p \in l.logged THEN l.outs[p] ELSE l.out)>>

\* Both handlers called the connector of one platform for one post; one
\* published it, the other failed and wrote last: the target is failed
\* and has no external id.
C26_Witness ==
    \E h \in Returned, g \in Returned, p \in ConnectorSet :
        /\ h # g /\ loc[h].post = loc[g].post
        /\ p \in loc[h].called /\ p \in loc[g].called
        /\ loc[h].outs[p].status = "published" /\ p \in loc[h].stored
        /\ loc[g].outs[p].status = "failed" /\ p \notin loc[g].dirty
        /\ targets[loc[g].post, p] =
              <<[status |-> "failed", external_post_id |-> Nil,
                 error |-> loc[g].outs[p].error]>>

\* C32: a publish of a post id that is not in the store returns the
\* not-found error of GetPost: no platform is attempted, nothing is fetched,
\* no connector is called, and no target row and no log entry of that post
\* exists.
C32_MissingPost ==
    \A h \in Publishing :
        LET l == loc[h] IN
        ~PostExists(posts, l.post) =>
            /\ l.att \cup l.fetched \cup l.called \cup l.wrote \cup l.logged = {}
            /\ \A p \in PlatKeys : targets[l.post, p] = <<>>
            /\ \A e \in BagToSet(logs) : e.post # l.post
            /\ h \in Returned => l.res = "post " \o ToString(l.post) \o " not found"

\* A publish of post 2, which was never created, has returned.
C32_Witness ==
    \E h \in Returned :
        /\ loc[h].post = 2 /\ ~PostExists(posts, 2)
        /\ loc[h].res = "post 2 not found"
        /\ loc[h].sel # <<>>

\* C35: a publish invocation leaves the selection as it is: the
\* SetTargetStatus of an attempt changes what ListTargets returns for no
\* post and no platform, whatever was toggled since the invocation read the
\* targets.
C35_PublishKeepsSelection ==
    [][\A h \in Handlers :
          (pc[h] = "p_write" /\ pc'[h] # "p_write") =>
              \A i \in PostIds : ListTargets(targets', i) = ListTargets(targets, i)]_vars

-----------------------------------------------------------------------------
(* Properties of one dispatch, under SpecDispatch                           *)

\* The platform whose attempt handler h is in, past the start of publishToX.
Attempting(h) ==
    IF h \in Publishing /\ pc[h] \in {"p_fetch", "p_call", "p_write", "p_log"}
    THEN {Connectors[loc[h].idx]} ELSE {}

Range(f) == {f[i] : i \in DOMAIN f}

\* C22: for each of twitter, pinterest, facebook and instagram, when a
\* configuration value the platform requires is absent, the attempt makes
\* no media fetch and no connector call, sets the target to failed with a
\* non-empty error text, appends a log entry with event error for the
\* platform, and the invocation returns that error.
C22_MissingConfiguration ==
    \A h \in Publishing :
        LET l == loc[h] IN
        \A p \in l.att :
            ConfigValues(p) \ cfg.nonEmpty # {} =>
                /\ p \notin l.fetched /\ p \notin l.called
                /\ pc[h] # "p_media" => l.out.status = "failed" /\ l.out.error # Some("")
                /\ p \in l.wrote =>
                      targets[l.post, p] = <<[status |-> "failed", external_post_id |-> Nil,
                                              error |-> l.out.error]>>
                /\ p \in l.logged => HasLog(l.post, p, "error", l.out.error[1])
                /\ h \in Returned => p \in l.wrote /\ p \in l.logged /\ l.res = l.out.error[1]

\* Twitter and pinterest were published, facebook lacks its page id only.
C22_Witness ==
    \E h \in Returned :
        LET l == loc[h] IN
        /\ AllValues \ cfg.nonEmpty = {"FacebookPageID"}
        /\ l.att = {"twitter", "pinterest", "facebook"}
        /\ l.called = {"twitter", "pinterest"}
        /\ targets[l.post, "facebook"] =
              <<[status |-> "failed", external_post_id |-> Nil,
                 error |-> Some("Facebook access token or page ID missing")]>>
        /\ HasLog(l.post, "facebook", "error", "Facebook access token or page ID missing")

\* C23: every target with status published has a non-empty external id,
\* since a connector returns an error or a non-empty id.
C23_PublishedHasId ==
    \A k \in DOMAIN targets :
        \A i \in DOMAIN targets[k] :
            targets[k][i].status = "published" =>
                /\ targets[k][i].external_post_id # Nil
                /\ targets[k][i].external_post_id # Some("")

\* C28: a dispatch takes its files from the media collection whenever the
\* collection holds an item, and the legacy photo when and only when the
\* collection is empty: with videos only in the collection no file is
\* taken at all.
C28_CollectionBeforeLegacy ==
    \A h \in Publishing :
        \A p \in Attempting(h) :
            LET l == loc[h]
                items == ListMedia(media, l.post)
                photos == {items[i].file : i \in {j \in DOMAIN items : items[j].type = "photo"}}
                legacy == posts[l.post].PhotoFileID
                past == pc[h] = "p_fetch" \/ p \in l.fetched \/ p \in l.called
            IN  /\ l.legacy => legacy # Nil /\ l.want = <<legacy[1]>>
                /\ Len(items) > 0 => ~l.legacy /\ Range(l.want) \subseteq photos
                /\ (Len(items) > 0 /\ photos # {} /\ Configured(cfg, p) /\ past) =>
                      l.want # <<>> /\ l.want[1] = FirstPhoto(items)
                /\ (Len(items) = 0 /\ legacy # Nil /\ Configured(cfg, p)) => l.legacy
                /\ (photos = {} /\ Len(items) > 0) => p \notin l.fetched

\* Twitter was called for a post whose collection holds a video only and
\* whose legacy photo is set: nothing was fetched.
C28_Witness ==
    \E h \in Publishing :
        LET l == loc[h] IN
        /\ "twitter" \in l.called /\ "twitter" \notin l.fetched
        /\ posts[l.post].PhotoFileID # Nil
        /\ Len(ListMedia(media, l.post)) = 1

\* C29: the content type handed to a connector with the bytes of a file is
\* never empty and never application/octet-stream.
C29_ContentTypeDefaulted ==
    \A h \in Publishing :
        \A i \in DOMAIN loc[h].handed :
            loc[h].handed[i] \notin {"", "application/octet-stream"}

\* C30: the requests of the instagram connector.  The first creates the
\* container; a second is sent only when the first was answered 2xx with a
\* creation id, and publishes under that id; the id returned is the id in
\* the answer to the second; otherwise the call fails and returns no id.
C30_TwoPhases ==
    \A h \in Publishing :
        LET l == loc[h]
            r == l.reqs
        IN  ("instagram" \in Attempting(h) /\ "instagram" \in l.called) =>
                /\ Len(r) \in {1, 2}
                /\ r[1].to = "media"
                /\ Len(r) = 2 <=> (~r[1].resp.err /\ Is2xx(r[1].resp.code) /\ r[1].resp.id # "")
                /\ Len(r) = 2 =>
                      /\ r[2].to = "media_publish"
                      /\ r[2].creation_id = r[1].resp.id
                /\ l.out.status = "published" <=>
                      (Len(r) = 2 /\ ~r[2].resp.err /\ Is2xx(r[2].resp.code) /\ r[2].resp.id # "")
                /\ l.out.status = "published" => l.out.ext = Some(r[2].resp.id)
                /\ l.out.status # "published" =>
                      l.out.status = "failed" /\ l.out.ext = Nil /\ l.out.error # Some("")

\* Phase 1 succeeded and phase 2 was refused: the call has failed.
C30_Witness ==
    \E h \in Publishing :
        LET l == loc[h] IN
        /\ "instagram" \in Attempting(h) /\ "instagram" \in l.called
        /\ Len(l.reqs) = 2
        /\ l.reqs[2].creation_id = FirstId(l.inv)
        /\ l.reqs[2].resp.code = 500
        /\ l.out = Failed("instagram media publish status 500: ", "")

\* The request was answered 2xx with an identifier.
Answered(r) == ~r.resp.err /\ Is2xx(r.resp.code) /\ r.resp.id # ""

\* C31: the requests of the twitter connector.  A tweet is created last,
\* after one upload for every image handed over, each answered with a media
\* id; it references those ids, at most 4; and when an upload fails the call
\* returns an error and no tweet is created.
C31_UploadsBeforeTweet ==
    \A h \in Publishing :
        LET l == loc[h]
            r == l.reqs
            tweets == {i \in DOMAIN r : r[i].to = "tweets"}
            uploads == {i \in DOMAIN r : r[i].to = "media/upload"}
        IN  ("twitter" \in Attempting(h) /\ "twitter" \in l.called) =>
                /\ tweets \cup uploads = DOMAIN r
                /\ \A i \in tweets :
                      /\ i = Len(r)
                      /\ Cardinality(uploads) = Len(l.handed)
                      /\ \A j \in uploads : Answered(r[j])
                      /\ r[i].media_ids = [j \in 1..(i - 1) |-> r[j].resp.id]
                      /\ Len(r[i].media_ids) <= 4
                /\ (\E j \in uploads : ~Answered(r[j])) =>
                      tweets = {} /\ l.out.status = "failed" /\ l.out.ext = Nil
                /\ l.out.status = "published" => tweets # {}

\* The first upload was answered with a media id, the second was refused:
\* no third request was made and the call failed.
C31_Witness ==
    \E h \in Publishing :
        LET l == loc[h] IN
        /\ "twitter" \in Attempting(h) /\ "twitter" \in l.called
        /\ Len(l.handed) = 4
        /\ Len(l.reqs) = 2
        /\ Answered(l.reqs[1]) /\ l.reqs[2].resp.code = 500
        /\ l.out = Failed("media upload failed: upload status 500: ", "")

\* C40: when the download of a photo that the attempt of twitter, pinterest
\* or facebook would carry fails, the outcome of the attempt is failed: no
\* attempt ends published with fewer photos than it was to carry.
C40_FetchFailureFails ==
    \A h \in Publishing :
        LET l == loc[h] IN
        \A p \in Attempting(h) \ {"instagram"} :
            (pc[h] \in {"p_write", "p_log"} /\ p \in l.fetched /\ l.got < Len(l.want)) =>
                l.out.status = "failed"

-----------------------------------------------------------------------------
(* Properties of the repository, under SpecStore *)

Selected(postID, p) == ListTargets(targets, postID)[p]

\* C5: for every platform p of storage.Platforms and every post, as long as
\* only ToggleTarget has touched (post, p) since the post was created:
\* ListTargets reports p unselected before the first toggle, the first
\* ToggleTarget returns true, the second returns false, and after it
\* ListTargets reports p unselected again (the returned values alternate and
\* the selection is the parity of the number of toggles).
C5_ToggleInvolution ==
    \A postID \in DOMAIN posts, p \in PlatformSet :
        <<postID, p>> \notin hist.set =>
            LET r == hist.tgl[postID, p] IN
            /\ \A i \in DOMAIN r : r[i] = (i % 2 = 1)
            /\ Selected(postID, p) = (Len(r) % 2 = 1)
            /\ Len(r) = 0 => ~Selected(postID, p)
            /\ Len(r) = 2 => r = <<TRUE, FALSE>> /\ ~Selected(postID, p)

C5_Witness ==
    \E postID \in DOMAIN posts, p \in PlatformSet :
        /\ <<postID, p>> \notin hist.set
        /\ hist.tgl[postID, p] = <<TRUE, FALSE>>
        /\ ~Selected(postID, p)

\* C6: after any sequence of repository calls, ListTargets(post) is a mapping
\* whose key set is exactly storage.Platforms, with value true exactly for the
\* platforms that have a target row of that post.
C6_ListTargetsKeys ==
    \A postID \in PostIds :
        /\ DOMAIN ListTargets(targets, postID) = PlatformSet
        /\ \A p \in PlatformSet : Selected(postID, p) = (targets[postID, p] # <<>>)

\* C7: AddMedia on a post that holds 10 media items fails and adds nothing;
\* AddMedia on a post that holds 9 items succeeds and CountMedia is then 10.
C7_AddMediaCapacity ==
    (last.op = "AddMedia" /\ PostExists(posts, last.post)) =>
        /\ last.before >= MaxMedia =>
              last.err # "" /\ CountMedia(media, last.post) = last.before
        /\ last.before = MaxMedia - 1 =>
              last.err = "" /\ CountMedia(media, last.post) = MaxMedia

\* The fragments joined by single newlines.
RECURSIVE JoinNL(_)
JoinNL(fs) ==
    IF fs = <<>> THEN <<>>
    ELSE IF Len(fs) = 1 THEN fs[1]
    ELSE fs[1] \o <<NL>> \o JoinNL(Tail(fs))

\* C10: AppendPostText(post, t) with non-empty t sets the text to t when the
\* text is empty, with no leading separator, and to text + "\n" + t otherwise:
\* a post whose text was set to base and then appended the non-empty fragments
\* f1..fn holds base, f1, .., fn joined by "\n" (base left out when empty); so
\* "a" then "b" appended to an empty text give exactly "a\nb".
C10_AppendText ==
    \A postID \in DOMAIN posts :
        LET base == hist.base[postID]
            frags == hist.frags[postID]
            text == posts[postID].TextContent
        IN  (\A i \in DOMAIN frags : frags[i] # <<>>) =>
                /\ text = JoinNL(IF base = <<>> THEN frags ELSE <<base>> \o frags)
                /\ ((base = <<>> /\ frags # <<>>) => Head(text) # NL)
                /\ ((base = <<>> /\ frags = << <<"a">>, <<"b">> >>) => text = <<"a", NL, "b">>)

C10_Witness ==
    \E postID \in DOMAIN posts :
        /\ hist.base[postID] = <<>>
        /\ hist.frags[postID] = << <<"a">>, <<"b">> >>
        /\ posts[postID].TextContent = <<"a", NL, "b">>

\* The fragments of fs that are not empty.
NonEmpty(fs) == SelectSeq(fs, LAMBDA f : f # <<>>)

\* C11: AppendPostText with an empty text is a no-op: whatever the text of
\* the post, it leaves the text unchanged and adds no separator, so the text
\* of a post is its base and the non-empty fragments appended since, joined
\* by single newlines.
C11_AppendEmptyNoOp ==
    \A postID \in DOMAIN posts :
        posts[postID].TextContent =
            JoinNL(NonEmpty(<<hist.base[postID]>> \o hist.frags[postID]))

PendingRow == [status |-> "pending", external_post_id |-> Nil, error |-> Nil]

\* C12: ToggleTarget on an existing post, with a name that lower-cased is
\* none of the five platforms, fails with the invalid-platform error and
\* changes no row; with a valid name it inserts a row with status pending
\* and returns true when the post has no row of that platform, and deletes
\* the row and returns false when it has one; either way no row of another
\* platform or another post changes.
C12_ToggleContract ==
    [][(last'.op = "ToggleTarget" /\ handled' # handled /\ PostExists(posts, last'.post)) =>
          LET postID == last'.post
              p == ToLower(last'.arg)
          IN  /\ \A k \in DOMAIN targets : k # <<postID, p>> => targets'[k] = targets[k]
              /\ IF p \notin PlatformSet
                 THEN last'.err = "invalid platform" /\ targets' = targets
                 ELSE /\ last'.err = ""
                      /\ IF targets[postID, p] = <<>>
                         THEN targets'[postID, p] = <<PendingRow>> /\ last'.ret
                         ELSE targets'[postID, p] = <<>> /\ ~last'.ret]_vars

\* A toggle with an invalid name was refused on a post that has a row, and
\* the row is still there.
C12_Witness ==
    /\ last.op = "ToggleTarget"
    /\ last.err = "invalid platform"
    /\ last.arg = "mastodon"
    /\ PostExists(posts, last.post)
    /\ targets[last.post, "twitter"] = <<PendingRow>>
    /\ targets[last.post, "mastodon"] = <<>>

-----------------------------------------------------------------------------
(* Properties of post_media, under SpecCompose *)

\* C37: AppendPostText is atomic: the append of a handler, whatever other
\* handlers of the chat appended since this handler began, adds its
\* non-empty fragment once at the end of the text the post holds at that
\* moment, after a single newline when that text is not empty, and leaves
\* the rest of the text and the other posts as they are.
C37_AppendAtomic ==
    [][\A h \in Handlers :
          (pc[h] \in {"m_text", "m_cap"} /\ pc'[h] # pc[h]) =>
              LET frag == TrimSpace(IF pc[h] = "m_text" THEN loc[h].msg.text
                                    ELSE loc[h].msg.caption)
                  cur == posts[loc[h].post].TextContent
              IN  (/\ frag # <<>>
                   /\ DOMAIN posts' = DOMAIN posts
                   /\ posts'[loc[h].post].TextContent =
                          (IF cur = <<>> THEN frag ELSE cur \o <<NL>> \o frag)
                   /\ \A i \in DOMAIN posts \ {loc[h].post} : posts'[i] = posts[i])]_vars

\* Two handlers of the chat ran together, one appended the caption "a" and
\* the other the text "b": the text holds both, in either order.
C37_Witness ==
    /\ pc = [h \in Handlers |-> "m_end"]
    /\ \E h, g \in Handlers :
           /\ loc[h].msg.caption = <<"a", " ">> /\ loc[h].added
           /\ loc[g].msg.text = <<" ", "b">>
    /\ posts[1].TextContent = <<"b", NL, "a">>

\* C36: when the handlers of two photos of one post run AddMedia at the same
\* time on a post with room for both, each INSERT succeeds and adds its item
\* at the position after the last one: no item is lost.
C36_ConcurrentAddMedia ==
    [][\A h \in Handlers :
          (/\ pc[h] = "m_ins" /\ pc'[h] # "m_ins"
           /\ CountMedia(media, loc[h].post) <= MaxMedia - NumHandlers) =>
              (/\ last'.err = ""
               /\ CountMedia(media', loc[h].post) = CountMedia(media, loc[h].post) + 1
               /\ NextPosition(media', loc[h].post) = NextPosition(media, loc[h].post) + 1)]_vars

\* C8: in every reachable state, with the compose handlers of a chat
\* interleaved in any way, no post holds more than 10 media items.
C8_AtMostTenMedia == \A postID \in PostIds : CountMedia(media, postID) <= MaxMedia

\* C9: for every post, whatever AddMedia calls ran (successful or failed,
\* one after the other or interleaved): the positions of its media items are
\* exactly 0..n-1 without a duplicate, each inserted item has a position
\* greater than every item inserted before it, and ListMedia returns the
\* items in ascending position.
C9_DensePositions ==
    \A postID \in PostIds :
        LET rows == media[postID]
            n == Len(rows)
            listed == ListMedia(media, postID)
        IN  /\ {rows[i].position : i \in 1..n} = 0..(n - 1)
            /\ \A i, j \in 1..n : i < j => rows[i].position < rows[j].position
            /\ Len(listed) = n
            /\ \A i \in 1..n : listed[i].position = i - 1

\* An AddMedia failed on the UNIQUE constraint although the post accepts media,
\* and other AddMedia calls of the run succeeded.
C9_Witness ==
    /\ last.op = "AddMedia"
    /\ last.err # ""
    /\ PostExists(posts, last.post)
    /\ \E postID \in PostIds : Len(media[postID]) = 2 /\ media[postID][2].type = "video"

=============================================================================
